---- MODULE Spec2Model ----
(***************************************************************************)
(* A model of the macaroon package (macaroon.go, crypto.go): macaroons are *)
(* minted with New, attenuated with AddFirstPartyCaveat and                *)
(* AddThirdPartyCaveat, bound with Bind and verified with Verify.          *)
(*                                                                         *)
(* Byte strings are sequences of tokens.  A token is a tuple whose first   *)
(* element is a tag:                                                       *)
(*   <<"b", n>>                  the byte n                                *)
(*   <<"rnd", n, w>>             w secret/random bytes, named n            *)
(*   <<"zeros", n>>              n zero bytes                              *)
(*   <<"hmac", key, data>>       the 32 bytes of HMAC-SHA-256              *)
(*   <<"sha256", data>>          the 32 bytes of SHA-256                   *)
(*   <<"box", key, nonce, text>> the output of secretbox.Seal              *)
(* Hashes and boxes are ideal: equal outputs only for equal inputs, and a  *)
(* box opens only under the key and nonce that sealed it.                  *)
(***************************************************************************)
EXTENDS Integers, Sequences, FiniteSets, TLC

VARIABLES
    macs,      \* the macaroons made so far: macs[1] is the primary, the rest are the discharges
    rootKeys,  \* rootKeys[i]: the root key macs[i] was minted with (known to the minter only)
    minted,    \* minted[i]: the caveats the Add operations gave macs[i], each with the
               \* root key passed to AddThirdPartyCaveat (<<>> for a first-party caveat)
    boundTo,   \* boundTo[i]: the signature last passed to macs[i].Bind, <<>> if never bound
    result,    \* what the last Verify of macs[1] returned, NoResult after any change
    heap,      \* the backing arrays of the caveat slices, where macaroons are followed as
               \* objects that may share them (Clone); empty where they are followed as values
    buf,       \* the bytes of the wire encoding written and not yet read
    store      \* the bakery's in-memory storage: the map, and each goroutine's call of it

vars == <<macs, rootKeys, minted, boundTo, result, heap, buf, store>>

----------------------------------------------------------------------------
(* Bounds of the model *)

MaxMacaroons == 3
MaxCaveats == 2
MaxDepth == 5

----------------------------------------------------------------------------
(* Byte strings *)

B(n) == <<"b", n>>
Rnd(n, w) == <<"rnd", n, w>>
Zeros(n) == <<"zeros", n>>

hashLen == 32
blockSize == 64
keyLen == 32
nonceLen == 24
secretboxOverhead == 16

RECURSIVE ByteLen(_)
Width(tok) ==
    CASE tok[1] = "b" -> 1
      [] tok[1] = "rnd" -> tok[3]
      [] tok[1] = "zeros" -> tok[2]
      [] tok[1] = "hmac" -> hashLen
      [] tok[1] = "sha256" -> hashLen
      [] tok[1] = "box" -> secretboxOverhead + ByteLen(tok[4])
      [] tok[1] = "part" -> tok[4] - tok[3] + 1
      [] tok[1] = "hex" -> 2 * ByteLen(<<tok[2]>>)

\* len(s): the widths of the tokens, summed by halves to keep the nesting low
ByteLen(s) ==
    IF Len(s) = 0 THEN 0
    ELSE IF Len(s) = 1 THEN Width(s[1])
    ELSE ByteLen(SubSeq(s, 1, Len(s) \div 2)) + ByteLen(SubSeq(s, Len(s) \div 2 + 1, Len(s)))

\* s followed by n zero bytes (a run of zero bytes is kept as one token)
AppendZeros(s, n) ==
    IF n = 0 THEN s
    ELSE IF s # <<>> /\ s[Len(s)][1] = "zeros"
         THEN SubSeq(s, 1, Len(s) - 1) \o <<Zeros(s[Len(s)][2] + n)>>
         ELSE s \o <<Zeros(n)>>

\* copy(h[:], s) into a zeroed array of n bytes, for ByteLen(s) <= n
PadTo(s, n) == AppendZeros(s, n - ByteLen(s))

----------------------------------------------------------------------------
(* crypto.go *)

sha256Sum(data) == << <<"sha256", data>> >>

\* hmac.New(sha256.New, key): a key longer than the block size is hashed,
\* then the key is zero-padded to the block size
keyedHasher(key) ==
    PadTo(IF ByteLen(key) > blockSize THEN sha256Sum(key) ELSE key, blockSize)

keyedHash(key, text) == << <<"hmac", keyedHasher(key), text>> >>

makeKey(key) ==
    IF ByteLen(key) < keyLen THEN PadTo(key, keyLen) ELSE sha256Sum(key)

encrypt(key, text, nonce) == nonce \o << <<"box", makeKey(key), nonce, text>> >>

decrypt(key, ciphertext) ==
    IF ByteLen(ciphertext) < nonceLen + secretboxOverhead
    THEN [ok |-> FALSE, text |-> <<>>, err |-> "message too short"]
    ELSE IF /\ Len(ciphertext) = 2
            /\ Width(ciphertext[1]) = nonceLen
            /\ ciphertext[2][1] = "box"
            /\ ciphertext[2][2] = makeKey(key)
            /\ ciphertext[2][3] = <<ciphertext[1]>>
         THEN [ok |-> TRUE, text |-> ciphertext[2][4], err |-> ""]
         ELSE [ok |-> FALSE, text |-> <<>>, err |-> "decryption failure"]

----------------------------------------------------------------------------
(* macaroon.go: the macaroon value *)

Caveat(loc, caveatId, verificationId) ==
    [location |-> loc, caveatId |-> caveatId, verificationId |-> verificationId]

IsThirdParty(cav) == Len(cav.verificationId) > 0

\* mutant: the location is signed together with the id
NewSignsLocation(rootKey, id, loc) ==
    [location |-> loc, id |-> id, caveats |-> <<>>, sig |-> keyedHash(rootKey, id \o loc)]

New(rootKey, id, loc) ==
    [location |-> loc, id |-> id, caveats |-> <<>>, sig |-> keyedHash(rootKey, id)]

\* mutant: the caveat is appended and the signature left as it was
addCaveatUnsigned(m, caveatId, verificationId, loc) ==
    [m EXCEPT !.caveats = Append(m.caveats, Caveat(loc, caveatId, verificationId))]

addCaveat(m, caveatId, verificationId, loc) ==
    [m EXCEPT !.caveats = Append(m.caveats, Caveat(loc, caveatId, verificationId)),
              !.sig = keyedHash(m.sig, verificationId \o caveatId)]

\* mutant: the case of equal signatures is forgotten
bindForRequestAlwaysHashes(rootSig, dischargeSig) == sha256Sum(rootSig \o dischargeSig)

\* mutant: the two signatures are hashed in the other order
bindForRequestSwapped(rootSig, dischargeSig) ==
    IF rootSig = dischargeSig THEN rootSig
    ELSE sha256Sum(dischargeSig \o rootSig)

bindForRequest(rootSig, dischargeSig) ==
    IF rootSig = dischargeSig THEN rootSig
    ELSE sha256Sum(rootSig \o dischargeSig)

\* mutant: Bind leaves the signature as it is
BindForgotten(m, rootSig) == m
Bind(m, rootSig) == [m EXCEPT !.sig = bindForRequest(rootSig, m.sig)]

AddFirstPartyCaveat(m, caveatId) == addCaveat(m, caveatId, <<>>, <<>>)

AddThirdPartyCaveat(m, rootKey, caveatId, loc, nonce) ==
    addCaveat(m, caveatId, encrypt(m.sig, rootKey, nonce), loc)

----------------------------------------------------------------------------
(* macaroon.go: Verify *)

\* error values.  Nil is Go's nil error; Overflow stands for a recursion
\* deeper than MaxDepth, after which no value is returned at all.
Nil == <<"nil">>
ErrDecrypt(i, cause) == <<"failed to decrypt caveat signature", i, cause>>
ErrNoDischarge(caveatId) == <<"cannot find discharge macaroon for caveat", caveatId>>
ErrSignature == <<"signature mismatch after caveat verification">>
ErrCheck(caveatId) == <<"condition not met", caveatId>>
Overflow == <<"stack overflow">>

\* the errors the discharge tests expect of Verify; no statement of
\* macaroon.go returns them
ErrUnused(id) == <<"discharge macaroon was not used", id>>
ErrUsedTwice(id) == <<"discharge macaroon was used more than once", id>>

\* The check argument of Verify: a function from conditions to errors,
\* here given by the conditions it accepts.
AcceptAll == [all |-> TRUE, ok |-> {}]
Accepting(S) == [all |-> FALSE, ok |-> S]
\* mutant: the error of check is dropped
CheckErrorDropped(check, caveatId) == Nil
Check(check, caveatId) ==
    IF check.all \/ caveatId \in check.ok THEN Nil ELSE ErrCheck(caveatId)

\* A call returns [err, depth]: the error, and the deepest nesting of verify
\* calls it reached.
Max(a, b) == IF a >= b THEN a ELSE b

RECURSIVE verify(_, _, _, _, _, _)
RECURSIVE verifyCaveats(_, _, _, _, _, _, _, _)
RECURSIVE verifyDischarges(_, _, _, _, _, _, _, _, _)

\* mutant: found starts out true, so that a caveat no discharge matches passes
verifyDischargesFoundAtOnce(cav, cavKey, rootSig, check, discharges, depth, j, found, verifyErr) ==
    IF j > Len(discharges) THEN [found |-> TRUE, err |-> verifyErr, depth |-> depth]
    ELSE IF discharges[j].id # cav.caveatId
    THEN verifyDischarges(cav, cavKey, rootSig, check, discharges, depth, j + 1, found, verifyErr)
    ELSE LET r == verify(discharges[j], rootSig, cavKey, check, discharges, depth + 1)
         IN  IF r.err = Nil \/ r.err = Overflow
             THEN [found |-> TRUE, err |-> r.err, depth |-> r.depth]
             ELSE LET rest == verifyDischarges(cav, cavKey, rootSig, check, discharges,
                                               depth, j + 1, TRUE, r.err)
                  IN  [rest EXCEPT !.depth = Max(r.depth, rest.depth)]

\* mutant: the error of a discharge is returned wrapped in a message
verifyDischargesWrapsError(cav, cavKey, rootSig, check, discharges, depth, j, found, verifyErr) ==
    IF j > Len(discharges) THEN [found |-> found, err |-> verifyErr, depth |-> depth]
    ELSE IF discharges[j].id # cav.caveatId
    THEN verifyDischarges(cav, cavKey, rootSig, check, discharges, depth, j + 1, found, verifyErr)
    ELSE LET r == verify(discharges[j], rootSig, cavKey, check, discharges, depth + 1)
         IN  IF r.err = Nil \/ r.err = Overflow
             THEN [found |-> TRUE, err |-> r.err, depth |-> r.depth]
             ELSE LET rest == verifyDischarges(cav, cavKey, rootSig, check, discharges, depth,
                                               j + 1, TRUE, <<"cannot verify discharge", r.err>>)
                  IN  [rest EXCEPT !.depth = Max(r.depth, rest.depth)]

\* the loop "for _, dm := range discharges" of verify, from discharge j on
verifyDischarges(cav, cavKey, rootSig, check, discharges, depth, j, found, verifyErr) ==
    IF j > Len(discharges) THEN [found |-> found, err |-> verifyErr, depth |-> depth]
    ELSE IF discharges[j].id # cav.caveatId
    THEN verifyDischarges(cav, cavKey, rootSig, check, discharges, depth, j + 1, found, verifyErr)
    ELSE LET r == verify(discharges[j], rootSig, cavKey, check, discharges, depth + 1)
         IN  IF r.err = Nil \/ r.err = Overflow
             THEN [found |-> TRUE, err |-> r.err, depth |-> r.depth]
             ELSE LET rest == verifyDischarges(cav, cavKey, rootSig, check, discharges,
                                               depth, j + 1, TRUE, r.err)
                  IN  [rest EXCEPT !.depth = Max(r.depth, rest.depth)]

\* mutant: the signature is not compared once the caveats have passed
verifyCaveatsNoComparison(m, rootSig, check, discharges, depth, i, caveatSig, deepest) ==
    IF i > Len(m.caveats)
    THEN [err |-> Nil, depth |-> deepest]
    ELSE
    LET cav == m.caveats[i]
        nextSig == keyedHash(caveatSig, cav.verificationId \o cav.caveatId)
    IN  IF IsThirdParty(cav)
        THEN LET dec == decrypt(caveatSig, cav.verificationId)
             IN  IF ~dec.ok THEN [err |-> ErrDecrypt(i - 1, dec.err), depth |-> deepest]
                 ELSE LET d == verifyDischarges(cav, dec.text, rootSig, check, discharges,
                                                depth, 1, FALSE, Nil)
                          deep == Max(deepest, d.depth)
                      IN  IF d.err = Overflow THEN [err |-> Overflow, depth |-> deep]
                          ELSE IF ~d.found
                          THEN [err |-> ErrNoDischarge(cav.caveatId), depth |-> deep]
                          ELSE IF d.err # Nil THEN [err |-> d.err, depth |-> deep]
                          ELSE verifyCaveats(m, rootSig, check, discharges, depth,
                                             i + 1, nextSig, deep)
        ELSE LET err == Check(check, cav.caveatId)
             IN  IF err # Nil THEN [err |-> err, depth |-> deepest]
                 ELSE verifyCaveats(m, rootSig, check, discharges, depth,
                                    i + 1, nextSig, deepest)

\* the loop "for i, cav := range m.caveats" of verify, from caveat i on
verifyCaveats(m, rootSig, check, discharges, depth, i, caveatSig, deepest) ==
    IF i > Len(m.caveats)
    THEN LET boundSig == bindForRequest(rootSig, caveatSig)
         IN  [err |-> IF boundSig = m.sig THEN Nil ELSE ErrSignature, depth |-> deepest]
    ELSE
    LET cav == m.caveats[i]
        nextSig == keyedHash(caveatSig, cav.verificationId \o cav.caveatId)
    IN  IF IsThirdParty(cav)
        THEN LET dec == decrypt(caveatSig, cav.verificationId)
             IN  IF ~dec.ok THEN [err |-> ErrDecrypt(i - 1, dec.err), depth |-> deepest]
                 ELSE LET d == verifyDischarges(cav, dec.text, rootSig, check, discharges,
                                                depth, 1, FALSE, Nil)
                          deep == Max(deepest, d.depth)
                      IN  IF d.err = Overflow THEN [err |-> Overflow, depth |-> deep]
                          ELSE IF ~d.found
                          THEN [err |-> ErrNoDischarge(cav.caveatId), depth |-> deep]
                          ELSE IF d.err # Nil THEN [err |-> d.err, depth |-> deep]
                          ELSE verifyCaveats(m, rootSig, check, discharges, depth,
                                             i + 1, nextSig, deep)
        ELSE LET err == Check(check, cav.caveatId)
             IN  IF err # Nil THEN [err |-> err, depth |-> deepest]
                 ELSE verifyCaveats(m, rootSig, check, discharges, depth,
                                    i + 1, nextSig, deepest)

\* mutant: each macaroon is checked against a binding to its own signature
verifyOwnSignature(m, rootSig, rootKey, check, discharges, depth) ==
    IF depth > MaxDepth THEN [err |-> Overflow, depth |-> depth]
    ELSE verifyCaveats(m, m.sig, check, discharges,
                       depth, 1, keyedHash(rootKey, m.id), depth)

verify(m, rootSig, rootKey, check, discharges, depth) ==
    IF depth > MaxDepth THEN [err |-> Overflow, depth |-> depth]
    ELSE verifyCaveats(m, IF Len(rootSig) = 0 THEN m.sig ELSE rootSig, check, discharges,
                       depth, 1, keyedHash(rootKey, m.id), depth)

Verify(m, rootKey, check, discharges) == verify(m, m.sig, rootKey, check, discharges, 0)

----------------------------------------------------------------------------
(* The values the operations are called with *)

\* root keys: a short key, the same key followed by a zero byte, and a key
\* of keyLen bytes
KeyA == <<Rnd(1, 6)>>
KeyA0 == <<Rnd(1, 6), Zeros(1)>>
KeyL == <<Rnd(2, 32)>>
RootKeys == {KeyA, KeyL}

\* identifiers, conditions and locations
IdR == <<B(114)>>
IdX == <<B(120)>>
IdY == <<B(121)>>
Cond1 == <<B(49)>>
Cond2 == <<B(50)>>
LocA == <<B(97)>>
CaveatIds == {IdX, IdY}
Conditions == {Cond1, Cond2}
Nonces == {<<Rnd(9, 24)>>}

\* the third parties: the root key each shares with the minter of a caveat
\* and the caveat id that stands for it
ThirdParties == {<<KeyA, IdX>>, <<KeyL, IdY>>}

----------------------------------------------------------------------------
(* The state machine *)

NoResult == [rootKey |-> <<>>, check |-> AcceptAll, err |-> <<"none">>, depth |-> 0]

RECURSIVE CountCaveats(_)
CountCaveats(ms) ==
    IF ms = <<>> THEN 0 ELSE Len(Head(ms).caveats) + CountCaveats(Tail(ms))

\* no macaroon has been bound yet
NoneBound == \A k \in DOMAIN boundTo: boundTo[k] = <<>>

\* ---- the bakery's in-memory storage (NewMemStorage) ----
\* the goroutines that call the storage, as TestConcurrentMemStorage starts them
MaxGoroutines == 2
Goroutines == 1..MaxGoroutines
\* a call that is not running: no receiver copied, nothing returned yet
idleCall == [pc |-> "idle", n |-> 0, op |-> "", location |-> <<>>, item |-> <<>>,
             mu |-> "unlocked", ret |-> <<>>]
\* &memStorage{values: make(map[string]string)}: an empty map and the zero Mutex
NewMemStorage ==
    [values |-> {}, mu |-> "unlocked", fatal |-> FALSE,
     calls |-> [g \in Goroutines |-> idleCall]]

Init ==
    /\ macs = <<>>
    /\ rootKeys = <<>>
    /\ minted = <<>>
    /\ boundTo = <<>>
    /\ result = NoResult
    /\ heap = <<>>
    /\ buf = <<>>
    /\ store = NewMemStorage

\* m := New(rootKey, id, loc): the first macaroon made is the primary
DoNew(rootKey, id, loc) ==
    /\ Len(macs) < MaxMacaroons
    /\ macs' = Append(macs, New(rootKey, id, loc))
    /\ rootKeys' = Append(rootKeys, rootKey)
    /\ minted' = Append(minted, <<>>)
    /\ boundTo' = Append(boundTo, <<>>)
    /\ result' = NoResult
    /\ UNCHANGED <<heap, buf, store>>

\* macs[i].AddFirstPartyCaveat(caveatId)
DoAddFirstPartyCaveat(i, caveatId) ==
    /\ CountCaveats(macs) < MaxCaveats
    /\ macs' = [macs EXCEPT ![i] = AddFirstPartyCaveat(macs[i], caveatId)]
    /\ minted' = [minted EXCEPT ![i] =
                     Append(@, [caveat |-> macs'[i].caveats[Len(macs'[i].caveats)],
                                rootKey |-> <<>>])]
    /\ result' = NoResult
    /\ UNCHANGED <<rootKeys, boundTo, heap, buf, store>>

\* macs[i].AddThirdPartyCaveat(rootKey, caveatId, loc), which draws nonce
DoAddThirdPartyCaveat(i, rootKey, caveatId, loc, nonce) ==
    /\ CountCaveats(macs) < MaxCaveats
    /\ macs' = [macs EXCEPT ![i] = AddThirdPartyCaveat(macs[i], rootKey, caveatId, loc, nonce)]
    /\ minted' = [minted EXCEPT ![i] =
                     Append(@, [caveat |-> macs'[i].caveats[Len(macs'[i].caveats)],
                                rootKey |-> rootKey])]
    /\ result' = NoResult
    /\ UNCHANGED <<rootKeys, boundTo, heap, buf, store>>

\* macs[i].Bind(macs[j].Signature())
DoBind(i, j) ==
    /\ macs' = [macs EXCEPT ![i] = Bind(macs[i], macs[j].sig)]
    /\ boundTo' = [boundTo EXCEPT ![i] = macs[j].sig]
    /\ result' = NoResult
    /\ UNCHANGED <<rootKeys, minted, heap, buf, store>>

\* macs[1].Verify(rootKey, check, macs[2:])
DoVerify(rootKey, check) ==
    /\ macs # <<>>
    /\ LET r == Verify(macs[1], rootKey, check, Tail(macs))
       IN  result' = [rootKey |-> rootKey, check |-> check, err |-> r.err, depth |-> r.depth]
    /\ UNCHANGED <<macs, rootKeys, minted, boundTo, heap, buf, store>>

\* The usual course of a request: the primary is minted with KeyA, each
\* discharge is minted for one of the third parties, caveats are added while
\* nothing is bound yet, each discharge is bound once to the primary, and the
\* primary is verified with the key it was minted with.
Next ==
    \/ \E p \in (IF macs = <<>> THEN {<<KeyA, IdR>>} ELSE ThirdParties):
          DoNew(p[1], p[2], LocA)
    \/ \E i \in DOMAIN macs, c \in Conditions:
          NoneBound /\ DoAddFirstPartyCaveat(i, c)
    \/ \E i \in DOMAIN macs, p \in ThirdParties, n \in Nonces:
          NoneBound /\ DoAddThirdPartyCaveat(i, p[1], p[2], LocA, n)
    \/ \E i \in DOMAIN macs \ {1}: boundTo[i] = <<>> /\ DoBind(i, 1)
    \/ \E c \in {AcceptAll, Accepting({Cond1})}: DoVerify(rootKeys[1], c)

Spec == Init /\ [][Next]_vars

----------------------------------------------------------------------------
(* Vocabulary of the properties *)

Verified == result # NoResult
Succeeded == result.err = Nil
WithMintingKey == result.rootKey = rootKeys[1]
DischargeIdx == DOMAIN macs \ {1}

\* the caveats of macs[i] are the ones the Add operations gave it
Untampered(i) ==
    macs[i].caveats = [k \in DOMAIN minted[i] |-> minted[i][k].caveat]

\* the places <<i, k>> of the third-party and of the first-party caveats
ThirdPartyAt ==
    {o \in UNION {{<<i, k>> : k \in DOMAIN macs[i].caveats} : i \in DOMAIN macs} :
        IsThirdParty(macs[o[1]].caveats[o[2]])}
FirstPartyAt ==
    {o \in UNION {{<<i, k>> : k \in DOMAIN macs[i].caveats} : i \in DOMAIN macs} :
        ~IsThirdParty(macs[o[1]].caveats[o[2]])}
CaveatAt(o) == macs[o[1]].caveats[o[2]]

\* the discharges whose id is the id of the caveat at o
DischargesFor(o) == {j \in DischargeIdx : macs[j].id = CaveatAt(o).caveatId}

\* the macaroons Verify can come to: the primary, and every discharge whose
\* id is the id of a third-party caveat of a macaroon it can come to
RECURSIVE ReachFrom(_)
ReachFrom(S) ==
    LET T == S \cup UNION {DischargesFor(o) : o \in {q \in ThirdPartyAt : q[1] \in S}}
    IN  IF T = S THEN S ELSE ReachFrom(T)
Reached == ReachFrom({1})

\* no two discharges share an id, and no two third-party caveats share an id
DistinctIds ==
    /\ \A i, j \in DischargeIdx : i # j => macs[i].id # macs[j].id
    /\ \A o, q \in ThirdPartyAt : o # q => CaveatAt(o).caveatId # CaveatAt(q).caveatId

\* discharge j was minted with the root key given to AddThirdPartyCaveat for
\* every caveat it discharges
RightKey(j) ==
    \A o \in ThirdPartyAt : j \in DischargesFor(o) => rootKeys[j] = minted[o[1]][o[2]].rootKey

BoundToPrimary(j) == boundTo[j] = macs[1].sig

\* the check passed to the last Verify accepts every first-party condition
ChecksAccepted == \A o \in FirstPartyAt : Check(result.check, CaveatAt(o).caveatId) = Nil

\* every third-party caveat has its one discharge, minted by New with the
\* caveat's root key and id and bound to the primary, and there is no other
\* discharge
WellDischarged ==
    /\ \A i \in DOMAIN macs : Untampered(i)
    /\ DistinctIds
    /\ \A o \in ThirdPartyAt : DischargesFor(o) # {}
    /\ \A j \in DischargeIdx : RightKey(j) /\ BoundToPrimary(j)
    /\ Reached = DOMAIN macs

----------------------------------------------------------------------------
(* C1: completeness of Verify.  A primary built by New and the Add           *)
(* operations, verified with its root key, a check that accepts every        *)
(* condition, and exactly one rightly keyed, bound discharge for each        *)
(* third-party caveat reachable from it, verifies successfully.              *)
Thm_C1 ==
    (Verified /\ WithMintingKey /\ WellDischarged /\ ChecksAccepted) => Succeeded

\* a primary with a discharge that itself needs a discharge verifies
Wit_C1 ==
    /\ Verified /\ WithMintingKey /\ WellDischarged /\ ChecksAccepted
    /\ Len(macs) = 3
    /\ \E o \in ThirdPartyAt : o[1] # 1
    /\ Succeeded

----------------------------------------------------------------------------
(* C2: attenuation monotonicity.  When every third-party caveat Verify can  *)
(* come to has exactly one discharge with its id, and check rejects the      *)
(* condition of a first-party caveat of the primary or of a discharge        *)
(* Verify can come to, Verify returns an error.                              *)
Rejected(caveatId) == ~result.check.all /\ caveatId \notin result.check.ok
RejectedAt == {o \in FirstPartyAt : o[1] \in Reached /\ Rejected(CaveatAt(o).caveatId)}
OneDischargeEach ==
    \A o \in ThirdPartyAt : o[1] \in Reached => Cardinality(DischargesFor(o)) = 1

Thm_C2 == (Verified /\ OneDischargeEach /\ RejectedAt # {}) => ~Succeeded

\* the rejected condition is in a bound discharge of a primary whose own
\* caveats pass, and Verify returns the error of check
Wit_C2 ==
    /\ Verified /\ WithMintingKey /\ WellDischarged
    /\ \E o \in RejectedAt : o[1] # 1 /\ result.err = ErrCheck(CaveatAt(o).caveatId)
    /\ \A o \in RejectedAt : o[1] # 1

----------------------------------------------------------------------------
(* Binding: a discharge is bound once, to the signature of the primary or to *)
(* the signature of the first discharge, or is left unbound.                 *)
NextBind ==
    \/ \E p \in (IF macs = <<>> THEN {<<KeyA, IdR>>} ELSE ThirdParties):
          DoNew(p[1], p[2], LocA)
    \/ \E i \in DOMAIN macs : NoneBound /\ DoAddFirstPartyCaveat(i, Cond1)
    \/ \E i \in DOMAIN macs, p \in ThirdParties, n \in Nonces:
          NoneBound /\ DoAddThirdPartyCaveat(i, p[1], p[2], LocA, n)
    \/ \E i \in DOMAIN macs \ {1}, j \in DOMAIN macs \cap {1, 2}:
          i # j /\ boundTo[i] = <<>> /\ DoBind(i, j)
    \/ DoVerify(rootKeys[1], AcceptAll)

SpecBind == Init /\ [][NextBind]_vars

\* all is in order but for the binding of the discharges
NoneMissing == \A o \in ThirdPartyAt : o[1] \in Reached => DischargesFor(o) # {}
InOrderButBinding ==
    /\ \A i \in DOMAIN macs : Untampered(i)
    /\ DistinctIds
    /\ NoneMissing
    /\ \A j \in DischargeIdx : RightKey(j)
    /\ ChecksAccepted
NotBoundToPrimary == {j \in Reached \ {1} : ~BoundToPrimary(j)}

(* C5: a discharge is accepted only when bound to this primary.  In a bundle *)
(* otherwise in order, a discharge on the walk of Verify that was not bound  *)
(* with Bind(primary.Signature()), or was bound to another signature, makes  *)
(* Verify fail with a signature mismatch; with every such discharge bound to *)
(* the signature of the primary, Verify succeeds.                            *)
Thm_C5 ==
    (Verified /\ WithMintingKey /\ InOrderButBinding)
        => IF NotBoundToPrimary = {} THEN Succeeded ELSE result.err = ErrSignature

\* a discharge bound to the signature of another discharge is refused
Wit_C5 ==
    /\ Verified /\ WithMintingKey /\ InOrderButBinding
    /\ \E j \in NotBoundToPrimary : boundTo[j] # <<>>
    /\ \A j \in NotBoundToPrimary : boundTo[j] # <<>>
    /\ result.err = ErrSignature

----------------------------------------------------------------------------
(* C6: missing discharge.  In a bundle that is otherwise in order, when the  *)
(* primary or a discharge Verify can come to has a third-party caveat whose  *)
(* id is the id of no discharge, Verify fails with the missing-discharge     *)
(* error naming the id of such a caveat.                                     *)
Missing == {o \in ThirdPartyAt : o[1] \in Reached /\ DischargesFor(o) = {}}
OtherwiseInOrder ==
    /\ \A i \in DOMAIN macs : Untampered(i)
    /\ DistinctIds
    /\ \A j \in DischargeIdx : RightKey(j) /\ BoundToPrimary(j)

Thm_C6 ==
    (Verified /\ WithMintingKey /\ OtherwiseInOrder /\ ChecksAccepted /\ Missing # {})
        => \E o \in Missing : result.err = ErrNoDischarge(CaveatAt(o).caveatId)

\* the caveat without discharge is a caveat of a discharge
Wit_C6 ==
    /\ Verified /\ WithMintingKey /\ OtherwiseInOrder /\ ChecksAccepted
    /\ \E o \in Missing : o[1] # 1 /\ result.err = ErrNoDischarge(CaveatAt(o).caveatId)
    /\ \A o \in Missing : o[1] # 1

----------------------------------------------------------------------------
(* C7: unused discharge.  When the walk of Verify is otherwise successful    *)
(* and a macaroon of discharges discharges no third-party caveat, Verify     *)
(* fails with the unused-discharge error naming the id of such a macaroon.   *)
Unused == DOMAIN macs \ Reached

Cex_C7 ==
    (Verified /\ WithMintingKey /\ OtherwiseInOrder /\ ChecksAccepted
        /\ Missing = {} /\ Unused # {})
        => \E j \in Unused : result.err = ErrUnused(macs[j].id)

----------------------------------------------------------------------------
(* C8: single use of discharges.  When one discharge matches more than one   *)
(* third-party caveat that Verify comes to, Verify does not succeed.         *)
MatchedBy(j) == {o \in ThirdPartyAt : o[1] \in Reached /\ j \in DischargesFor(o)}
UsedTwice == {j \in DischargeIdx : Cardinality(MatchedBy(j)) > 1}

Cex_C8 == (Verified /\ UsedTwice # {}) => ~Succeeded

----------------------------------------------------------------------------
(* C9: termination.  Verify returns, and the nesting of its calls is never   *)
(* deeper than the number of discharges it was given.                        *)
Cex_C9 == Verified => (result.err # Overflow /\ result.depth <= Len(macs) - 1)

----------------------------------------------------------------------------
(* A holder rewrites the primary.  Whoever holds a macaroon can give Verify  *)
(* any caveat list under the signature it has: UnmarshalJSON takes caveats   *)
(* and signature as they come.  Each step removes a caveat, swaps two        *)
(* neighbours, or sets the caveat id or the verification id of one caveat.   *)
SetCaveats(cavs) ==
    /\ macs' = [macs EXCEPT ![1].caveats = cavs]
    /\ result' = NoResult
    /\ UNCHANGED <<rootKeys, minted, boundTo, heap, buf, store>>

DoRemoveCaveat(k) ==
    LET cavs == macs[1].caveats
    IN  SetCaveats(SubSeq(cavs, 1, k - 1) \o SubSeq(cavs, k + 1, Len(cavs)))

DoSwapCaveats(k) ==
    LET cavs == macs[1].caveats
    IN  /\ k + 1 \in DOMAIN cavs
        /\ cavs[k] # cavs[k + 1]
        /\ SetCaveats([cavs EXCEPT ![k] = cavs[k + 1], ![k + 1] = cavs[k]])

DoSetCaveatId(k, caveatId) ==
    /\ macs[1].caveats[k].caveatId # caveatId
    /\ SetCaveats([macs[1].caveats EXCEPT ![k].caveatId = caveatId])

DoSetVerificationId(k, verificationId) ==
    /\ macs[1].caveats[k].verificationId # verificationId
    /\ SetCaveats([macs[1].caveats EXCEPT ![k].verificationId = verificationId])

\* the ids a holder has at hand: those in use, and the bytes of the caveats
\* the primary was given
MintedBytes ==
    {minted[1][k].caveat.verificationId \o minted[1][k].caveat.caveatId : k \in DOMAIN minted[1]}
HolderCaveatIds == CaveatIds \cup {Cond1} \cup MintedBytes
HolderVerificationIds ==
    {<<>>} \cup {minted[1][k].caveat.verificationId : k \in DOMAIN minted[1]}

PrimaryIntact == IF macs = <<>> THEN TRUE ELSE Untampered(1)
PrimaryCaveats == IF macs = <<>> THEN {} ELSE DOMAIN macs[1].caveats

NextTamper ==
    \/ \E p \in (IF macs = <<>> THEN {<<KeyA, IdR>>} ELSE ThirdParties):
          PrimaryIntact /\ DoNew(p[1], p[2], LocA)
    \/ \E i \in DOMAIN macs :
          PrimaryIntact /\ NoneBound /\ DoAddFirstPartyCaveat(i, Cond1)
    \/ \E i \in DOMAIN macs, p \in ThirdParties, n \in Nonces:
          PrimaryIntact /\ NoneBound /\ DoAddThirdPartyCaveat(i, p[1], p[2], LocA, n)
    \/ \E i \in DOMAIN macs \ {1}:
          PrimaryIntact /\ boundTo[i] = <<>> /\ DoBind(i, 1)
    \/ \E k \in PrimaryCaveats : DoRemoveCaveat(k)
    \/ \E k \in PrimaryCaveats : DoSwapCaveats(k)
    \/ \E k \in PrimaryCaveats : \E c \in HolderCaveatIds : DoSetCaveatId(k, c)
    \/ \E k \in PrimaryCaveats : \E v \in HolderVerificationIds : DoSetVerificationId(k, v)
    \/ DoVerify(rootKeys[1], AcceptAll)

SpecTamper == Init /\ [][NextTamper]_vars

(* C3: integrity of the caveat list.  A primary whose caveat list is no      *)
(* longer the list the Add operations gave it, under the signature they      *)
(* gave it, never passes Verify with the root key it was minted with.        *)
Cex_C3 == (Verified /\ WithMintingKey /\ ~Untampered(1)) => ~Succeeded

----------------------------------------------------------------------------
(* Verification with other keys: discharges are minted with rightly and     *)
(* wrongly chosen keys, and once every discharge is bound Verify is called   *)
(* with each key.                                                            *)
VerifyKeys == {KeyA, KeyA0, KeyL}
DischargeKinds == {<<KeyA0, IdX>>, <<KeyL, IdX>>, <<KeyL, IdY>>}
AllBound == \A j \in DischargeIdx : boundTo[j] # <<>>

NextKeys ==
    \/ \E p \in (IF macs = <<>> THEN {<<KeyA, IdR>>} ELSE DischargeKinds):
          DoNew(p[1], p[2], LocA)
    \/ \E i \in DOMAIN macs : NoneBound /\ DoAddFirstPartyCaveat(i, Cond1)
    \/ \E i \in DOMAIN macs, p \in ThirdParties, n \in Nonces:
          NoneBound /\ DoAddThirdPartyCaveat(i, p[1], p[2], LocA, n)
    \/ \E i \in DOMAIN macs \ {1}: boundTo[i] = <<>> /\ DoBind(i, 1)
    \/ \E k \in VerifyKeys : AllBound /\ DoVerify(k, AcceptAll)

SpecKeys == Init /\ [][NextKeys]_vars

\* two keys that HMAC prepares to the same block: they differ only in zero
\* bytes at the end, or are both longer than a block with the same hash
SameHmacKey(k1, k2) == keyedHasher(k1) = keyedHasher(k2)

\* the discharges Verify can come to whose root key is not the one given to
\* AddThirdPartyCaveat for a caveat they discharge: not the same bytes, and
\* not the same key to HMAC
WrongKeyBytes ==
    {j \in Reached \ {1} : \E o \in ThirdPartyAt :
        j \in DischargesFor(o) /\ rootKeys[j] # minted[o[1]][o[2]].rootKey}
WrongKeyed ==
    {j \in Reached \ {1} : \E o \in ThirdPartyAt :
        j \in DischargesFor(o) /\ ~SameHmacKey(rootKeys[j], minted[o[1]][o[2]].rootKey)}

\* all is in order but for the keys of the discharges
InOrderButKeys ==
    /\ \A i \in DOMAIN macs : Untampered(i)
    /\ DistinctIds
    /\ Missing = {}
    /\ \A j \in DischargeIdx : BoundToPrimary(j)
    /\ ChecksAccepted

\* what Verify returns for the wrongly keyed discharge j: its first
\* third-party caveat cannot be decrypted, or else its signature differs
FirstThirdParty(j) ==
    LET tp == {k \in DOMAIN macs[j].caveats : IsThirdParty(macs[j].caveats[k])}
    IN  IF tp = {} THEN 0 ELSE CHOOSE k \in tp : \A l \in tp : k <= l
WrongKeyError(j) ==
    IF FirstThirdParty(j) = 0 THEN ErrSignature
    ELSE ErrDecrypt(FirstThirdParty(j) - 1, "decryption failure")

(* C4, as stated: Verify with a root key other than the minting key never   *)
(* succeeds, and a discharge minted with a root key other than the one given *)
(* to AddThirdPartyCaveat makes Verify fail with a signature mismatch.       *)
Cex_C4 ==
    Verified =>
        /\ result.rootKey # rootKeys[1] => ~Succeeded
        /\ (WithMintingKey /\ InOrderButKeys /\ WrongKeyBytes # {}) => result.err = ErrSignature

(* C4, amended: Verify with a root key that HMAC does not prepare to the    *)
(* same key as the minting key never succeeds; a discharge minted with a     *)
(* root key that is to HMAC another key than the one given to                *)
(* AddThirdPartyCaveat makes Verify fail, with a signature mismatch when the *)
(* discharge has no third-party caveat and with the decryption failure of    *)
(* its first third-party caveat when it has one.                             *)
Thm_C4 ==
    Verified =>
        /\ ~SameHmacKey(result.rootKey, rootKeys[1]) => ~Succeeded
        /\ (SameHmacKey(result.rootKey, rootKeys[1]) /\ InOrderButKeys /\ WrongKeyed # {})
              => \E j \in WrongKeyed : result.err = WrongKeyError(j)

\* the wrongly keyed discharge has a third-party caveat of its own, with its
\* discharge, and Verify fails to decrypt that caveat
Wit_C4 ==
    /\ Verified /\ SameHmacKey(result.rootKey, rootKeys[1]) /\ InOrderButKeys
    /\ \E j \in WrongKeyed :
          /\ FirstThirdParty(j) # 0
          /\ result.err = WrongKeyError(j)
    /\ WrongKeyBytes = WrongKeyed

----------------------------------------------------------------------------
(* C10: signature chain.  After New and any sequence of AddFirstPartyCaveat *)
(* and AddThirdPartyCaveat, without Bind, the signature is the recurrence    *)
(* sig0 = keyedHash(makeKey(rootKey), id),                                   *)
(* sig(i+1) = keyedHash(sig(i), verificationId(i) || caveatId(i)) over the   *)
(* caveats in their stored order.                                            *)
RECURSIVE ChainSig(_, _)
ChainSig(sig, caveats) ==
    IF caveats = <<>> THEN sig
    ELSE ChainSig(keyedHash(sig, Head(caveats).verificationId \o Head(caveats).caveatId),
                  Tail(caveats))

Cex_C10 ==
    \A i \in DOMAIN macs : boundTo[i] = <<>> =>
        macs[i].sig = ChainSig(keyedHash(makeKey(rootKeys[i]), macs[i].id), macs[i].caveats)

----------------------------------------------------------------------------
(* Macaroons as objects.  A Go slice is a header (array, len, cap) over a    *)
(* backing array that other headers may share; heap[a] is backing array a.   *)
(* Clone, addCaveat and Bind are followed here on *Macaroon values whose     *)
(* caveats field is such a header.  The sig field is kept as a value: no     *)
(* statement of macaroon.go writes through m.sig, each one replaces it.      *)
MaxObjects == 2
nilSlice == [arr |-> 0, len |-> 0, cap |-> 0]
zeroCaveat == Caveat(<<>>, <<>>, <<>>)

\* make([]Caveat, n)
sliceMake(h, n) ==
    [heap |-> Append(h, [k \in 1..n |-> zeroCaveat]),
     slice |-> [arr |-> Len(h) + 1, len |-> n, cap |-> n]]

\* mutant: copy copies nothing
sliceCopyNothing(h, dst, src) == h
\* copy(dst, src)
sliceCopy(h, dst, src) ==
    LET n == IF dst.len < src.len THEN dst.len ELSE src.len
    IN  IF n = 0 THEN h
        ELSE [h EXCEPT ![dst.arr] = [k \in 1..Len(@) |-> IF k <= n THEN h[src.arr][k] ELSE @[k]]]

\* append(s, x): in place when the capacity allows, else into a new array
\* of capacity newcap (the language leaves the new capacity open)
sliceAppend(h, s, x, newcap) ==
    IF s.len < s.cap
    THEN [heap |-> [h EXCEPT ![s.arr][s.len + 1] = x],
          slice |-> [s EXCEPT !.len = s.len + 1]]
    ELSE [heap |-> Append(h, [k \in 1..newcap |->
                                 IF k <= s.len THEN h[s.arr][k]
                                 ELSE IF k = s.len + 1 THEN x ELSE zeroCaveat]),
          slice |-> [arr |-> Len(h) + 1, len |-> s.len + 1, cap |-> newcap]]
NewCaps(s) == {s.len + 1, s.len + 2}

\* the elements s[0:len(s)]
sliceElems(h, s) == [k \in 1..s.len |-> h[s.arr][k]]

\* the macaroon an object holds, as a value
Value(h, m) == [m EXCEPT !.caveats = sliceElems(h, m.caveats)]

\* mutant: the copy of the struct is returned, caveats header and all
CloneSharesCaveats(h, m) == [heap |-> h, m |-> m]
\* m.Clone()
Clone(h, m) ==
    LET mk == sliceMake(h, m.caveats.len)
    IN  [heap |-> sliceCopy(mk.heap, mk.slice, m.caveats),
         m |-> [m EXCEPT !.caveats = mk.slice]]

\* m.addCaveat(caveatId, verificationId, loc) on an object
addCaveatTo(h, m, caveatId, verificationId, loc, newcap) ==
    LET a == sliceAppend(h, m.caveats, Caveat(loc, caveatId, verificationId), newcap)
    IN  [heap |-> a.heap,
         m |-> [m EXCEPT !.caveats = a.slice,
                         !.sig = keyedHash(m.sig, verificationId \o caveatId)]]

\* New(rootKey, id, loc): the primary first, then discharges
DoNewObject(rootKey, id, loc) ==
    /\ Len(macs) < MaxObjects
    /\ (macs = <<>>) <=> (id = IdR)
    /\ macs' = Append(macs, [New(rootKey, id, loc) EXCEPT !.caveats = nilSlice])
    /\ rootKeys' = Append(rootKeys, rootKey)
    /\ minted' = Append(minted, <<>>)
    /\ boundTo' = Append(boundTo, <<>>)
    /\ result' = [op |-> "New", target |-> Len(macs) + 1]
    /\ UNCHANGED <<heap, buf, store>>

\* c := macs[i].Clone()
DoClone(i) ==
    /\ Len(macs) < MaxObjects
    /\ LET c == Clone(heap, macs[i])
       IN  /\ macs' = Append(macs, c.m)
           /\ heap' = c.heap
    /\ rootKeys' = Append(rootKeys, rootKeys[i])
    /\ minted' = Append(minted, minted[i])
    /\ boundTo' = Append(boundTo, boundTo[i])
    /\ result' = [op |-> "Clone", target |-> Len(macs) + 1]
    /\ UNCHANGED <<buf, store>>

\* macs[i].AddFirstPartyCaveat(caveatId)
DoAddFirstPartyCaveatTo(i, caveatId, newcap) ==
    /\ macs[i].caveats.len < MaxCaveats
    /\ LET a == addCaveatTo(heap, macs[i], caveatId, <<>>, <<>>, newcap)
       IN  /\ macs' = [macs EXCEPT ![i] = a.m]
           /\ heap' = a.heap
    /\ minted' = [minted EXCEPT ![i] =
                     Append(@, [caveat |-> Caveat(<<>>, caveatId, <<>>), rootKey |-> <<>>])]
    /\ result' = [op |-> "AddFirstPartyCaveat", target |-> i]
    /\ UNCHANGED <<rootKeys, boundTo, buf, store>>

\* macs[i].AddThirdPartyCaveat(rootKey, caveatId, loc), which draws nonce
DoAddThirdPartyCaveatTo(i, rootKey, caveatId, loc, nonce, newcap) ==
    /\ macs[i].caveats.len < MaxCaveats
    /\ LET vid == encrypt(macs[i].sig, rootKey, nonce)
           a == addCaveatTo(heap, macs[i], caveatId, vid, loc, newcap)
       IN  /\ macs' = [macs EXCEPT ![i] = a.m]
           /\ heap' = a.heap
           /\ minted' = [minted EXCEPT ![i] =
                            Append(@, [caveat |-> Caveat(loc, caveatId, vid), rootKey |-> rootKey])]
    /\ result' = [op |-> "AddThirdPartyCaveat", target |-> i]
    /\ UNCHANGED <<rootKeys, boundTo, buf, store>>

\* macs[i].Bind(macs[j].Signature()); with j = i this is m.Bind(m.Signature())
DoBindTo(i, j) ==
    /\ boundTo[i] = <<>>
    /\ macs' = [macs EXCEPT ![i] = Bind(macs[i], macs[j].sig)]
    /\ boundTo' = [boundTo EXCEPT ![i] = macs[j].sig]
    /\ result' = [op |-> "Bind", target |-> i, rootSig |-> macs[j].sig]
    /\ UNCHANGED <<rootKeys, minted, heap, buf, store>>

\* the other objects, handed to Verify as discharges
OthersOf(h, ms, i) ==
    LET RECURSIVE From(_)
        From(k) == IF k > Len(ms) THEN <<>>
                   ELSE IF k = i THEN From(k + 1)
                   ELSE <<Value(h, ms[k])>> \o From(k + 1)
    IN  From(1)

\* err := m.Verify(rootKey, check, discharges), the same call once more, and
\* m.Clone().Verify(rootKey, check, discharges), for the primary m
DoVerifyObject(check) ==
    /\ macs # <<>>
    /\ LET c == Clone(heap, macs[1])
           ds == OthersOf(heap, macs, 1)
       IN  result' = [op |-> "Verify", target |-> 1, check |-> check,
                      err |-> Verify(Value(heap, macs[1]), rootKeys[1], check, ds).err,
                      again |-> Verify(Value(heap, macs[1]), rootKeys[1], check, ds).err,
                      cloneErr |-> Verify(Value(c.heap, c.m), rootKeys[1], check,
                                          OthersOf(c.heap, macs, 1)).err]
    /\ UNCHANGED <<macs, rootKeys, minted, boundTo, heap, buf, store>>

NextClone ==
    \/ \E id \in {IdR, IdX} : DoNewObject(KeyA, id, LocA)
    \/ \E i \in DOMAIN macs : DoClone(i)
    \/ \E i \in DOMAIN macs : \E n \in NewCaps(macs[i].caveats) :
          DoAddFirstPartyCaveatTo(i, Cond1, n)
    \/ \E i \in DOMAIN macs : \E n \in NewCaps(macs[i].caveats) :
          DoAddThirdPartyCaveatTo(i, KeyA, IdX, LocA, <<Rnd(i, nonceLen)>>, n)
    \/ \E i \in DOMAIN macs, j \in DOMAIN macs : DoBindTo(i, j)
    \/ DoVerifyObject(AcceptAll)

SpecClone == Init /\ [][NextClone]_vars

----------------------------------------------------------------------------
(* C11: Bind(s) leaves the signature as it is when s equals the current      *)
(* signature, so that m.Bind(m.Signature()) changes nothing, and otherwise   *)
(* replaces it with SHA-256(s || current signature); id, location and        *)
(* caveats stay as they were in both cases.                                  *)
BindStep ==
    result'.op = "Bind" =>
        LET before == Value(heap, macs[result'.target])
            after == Value(heap', macs'[result'.target])
            s == result'.rootSig
        IN  /\ after.sig = (IF s = before.sig THEN before.sig
                            ELSE sha256Sum(s \o before.sig))
            /\ after.id = before.id
            /\ after.location = before.location
            /\ after.caveats = before.caveats
Thm_C11 == [][BindStep]_vars

\* a macaroon with a caveat was bound to its own signature, and another to
\* a signature that is not its own
Wit_C11 ==
    /\ Len(macs) = 2
    /\ macs[1].caveats.len > 0
    /\ boundTo[1] = macs[1].sig
    /\ boundTo[2] # <<>>
    /\ macs[2].sig = sha256Sum(boundTo[2] \o keyedHash(KeyA, macs[2].id))

----------------------------------------------------------------------------
(* C12: Clone gives an independent macaroon: whatever AddFirstPartyCaveat,   *)
(* AddThirdPartyCaveat and Bind do to one macaroon, the signature, caveats,  *)
(* id and location of every other macaroon, its clones and the macaroon it   *)
(* was cloned from included, stay as they were.                              *)
Mutators == {"AddFirstPartyCaveat", "AddThirdPartyCaveat", "Bind"}
OthersUntouched ==
    result'.op \in Mutators =>
        \A j \in DOMAIN macs \ {result'.target} :
            Value(heap', macs'[j]) = Value(heap, macs[j])
Thm_C12 == [][OthersUntouched]_vars

\* a macaroon and its clone, taken when it had one caveat, that each got a
\* second caveat of their own afterwards
Wit_C12 ==
    /\ Len(macs) = 2
    /\ macs[1].id = macs[2].id
    /\ macs[1].caveats.len = 2
    /\ macs[2].caveats.len = 2
    /\ Value(heap, macs[1]).caveats[1] = Value(heap, macs[2]).caveats[1]
    /\ Value(heap, macs[1]).caveats[2] # Value(heap, macs[2]).caveats[2]

----------------------------------------------------------------------------
(* C13: Verify is deterministic: a second run with the same root key, check  *)
(* and discharges returns what the first returned, the error included, and   *)
(* Verify on m.Clone() returns what Verify on m returns.                     *)
VerifiedObject == "op" \in DOMAIN result /\ result.op = "Verify"
Thm_C13 ==
    VerifiedObject => /\ result.again = result.err
                      /\ result.cloneErr = result.err

\* Verify of a primary with caveats, with a discharge at hand, ended in an error
Wit_C13 ==
    /\ VerifiedObject
    /\ Len(macs) = 2
    /\ macs[1].caveats.len > 0
    /\ macs[2].id = IdX
    /\ result.err # Nil

----------------------------------------------------------------------------
(* C14: when check rejects a first-party caveat, Verify returns the very     *)
(* error value check returned, neither wrapped nor changed, also when the    *)
(* caveat is one of a discharge.  Stated for bundles in which the rejection  *)
(* is the only thing that can fail: minting key, every third-party caveat    *)
(* with its one bound, rightly keyed discharge.                              *)
Thm_C14 ==
    (Verified /\ WithMintingKey /\ WellDischarged /\ RejectedAt # {})
        => \E o \in RejectedAt : result.err = Check(result.check, CaveatAt(o).caveatId)

\* check rejected a caveat of a discharge and none of the primary, and
\* Verify returned the error of check for that caveat
Wit_C14 ==
    /\ Verified /\ WithMintingKey /\ WellDischarged
    /\ RejectedAt # {}
    /\ \A o \in RejectedAt : o[1] \in DischargeIdx /\ BoundToPrimary(o[1])
    /\ result.err \in {ErrCheck(c) : c \in Conditions}

----------------------------------------------------------------------------
(* Byte strings by offset.  Slicing cuts a byte string at byte offsets; a    *)
(* cut inside a token that stands for several bytes leaves a part of it.     *)

\* bytes a..b (counted from 1) of a token
Part(tok, a, b) ==
    IF a = 1 /\ b = Width(tok) THEN tok
    ELSE IF tok[1] = "zeros" THEN Zeros(b - a + 1)
    ELSE IF tok[1] = "part" THEN <<"part", tok[2], tok[3] + a - 1, tok[3] + b - 1>>
    ELSE <<"part", tok, a, b>>

\* s[:n]
RECURSIVE TakeBytes(_, _)
TakeBytes(s, n) ==
    IF n <= 0 \/ s = <<>> THEN <<>>
    ELSE IF Width(Head(s)) <= n
         THEN <<Head(s)>> \o TakeBytes(Tail(s), n - Width(Head(s)))
         ELSE <<Part(Head(s), 1, n)>>

\* s[n:]
RECURSIVE DropBytes(_, _)
DropBytes(s, n) ==
    IF n <= 0 \/ s = <<>> THEN s
    ELSE IF Width(Head(s)) <= n
         THEN DropBytes(Tail(s), n - Width(Head(s)))
         ELSE <<Part(Head(s), n + 1, Width(Head(s)))>> \o Tail(s)

\* the value of a byte of a token whose bytes are not followed one by one
Opaque == -2

\* s[k], counted from 0, for k < len(s)
RECURSIVE ByteAt(_, _)
ByteAt(s, k) ==
    IF Width(Head(s)) <= k THEN ByteAt(Tail(s), k - Width(Head(s)))
    ELSE IF Head(s)[1] = "b" THEN Head(s)[2]
    ELSE IF Head(s)[1] = "zeros" THEN 0
    ELSE Opaque

\* bytes.IndexByte(s, c), counted from off; Opaque when a token whose bytes
\* are not followed comes before the first c
RECURSIVE IndexByteFrom(_, _, _)
IndexByteFrom(s, c, off) ==
    IF s = <<>> THEN -1
    ELSE IF Head(s)[1] = "b"
         THEN IF Head(s)[2] = c THEN off ELSE IndexByteFrom(Tail(s), c, off + 1)
    ELSE IF Head(s)[1] = "zeros"
         THEN IF c = 0 THEN off ELSE IndexByteFrom(Tail(s), c, off + Width(Head(s)))
    ELSE Opaque
IndexByte(s, c) == IndexByteFrom(s, c, 0)

\* []byte(str) for a string given by its character codes
Str(codes) == [k \in DOMAIN codes |-> B(codes[k])]

----------------------------------------------------------------------------
(* packet.go: the packets of the binary encoding *)

fieldNameLocation == Str(<<108, 111, 99, 97, 116, 105, 111, 110>>)
fieldNameIdentifier == Str(<<105, 100, 101, 110, 116, 105, 102, 105, 101, 114>>)
fieldNameSignature == Str(<<115, 105, 103, 110, 97, 116, 117, 114, 101>>)
fieldNameCaveatId == Str(<<99, 105, 100>>)
fieldNameVerificationId == Str(<<118, 105, 100>>)
fieldNameCaveatLocation == Str(<<99, 108>>)

maxPacketLen == 65535

\* a panic of the Go runtime: the call returns nothing
Panic(msg) == <<"panic", msg>>
\* the outcome of a parse that depends on bytes the model does not follow
Undetermined == <<"undetermined">>

packet(fieldName, data, totalLen) ==
    [fieldName |-> fieldName, data |-> data, totalLen |-> totalLen]
noPacket == packet(<<>>, <<>>, 0)

asciiHex(b) ==
    IF b >= 48 /\ b <= 57 THEN [d |-> b - 48, ok |-> TRUE]
    ELSE IF b >= 97 /\ b <= 102 THEN [d |-> b - 97 + 10, ok |-> TRUE]
    ELSE [d |-> 0, ok |-> FALSE]

sizeOf(d0, d1, d2, d3) ==
    [size |-> d0.d * 4096 + d1.d * 256 + d2.d * 16 + d3.d,
     ok |-> d0.ok /\ d1.ok /\ d2.ok /\ d3.ok]
parseSize(data) ==
    sizeOf(asciiHex(ByteAt(data, 0)), asciiHex(ByteAt(data, 1)),
           asciiHex(ByteAt(data, 2)), asciiHex(ByteAt(data, 3)))

\* parsePacket from "i := bytes.IndexByte(data, ' ')" on: body is
\* data[4:plen], i the index of its first space, last its last byte
parseField(body, plen, i, last) ==
    IF i = Opaque THEN [p |-> noPacket, err |-> Undetermined]
    ELSE IF i <= 0 THEN [p |-> noPacket, err |-> <<"cannot parse field name">>]
    ELSE IF last = Opaque THEN [p |-> noPacket, err |-> Undetermined]
    ELSE IF last # 10 THEN [p |-> noPacket, err |-> <<"no terminating newline found">>]
    ELSE [p |-> packet(TakeBytes(body, i),
                       TakeBytes(DropBytes(body, i + 1), ByteLen(body) - i - 2),
                       plen),
          err |-> Nil]

\* parsePacket from "data = data[4:plen]" on
parseBody(body, plen) ==
    parseField(body, plen, IndexByte(body, 32), ByteAt(body, ByteLen(body) - 1))

\* parsePacket from "plen, ok := parseSize(data)" on
parseSized(data, sz) ==
    IF ~sz.ok THEN [p |-> noPacket, err |-> <<"cannot parse size">>]
    ELSE IF sz.size > ByteLen(data) THEN [p |-> noPacket, err |-> <<"packet size too big">>]
    ELSE IF sz.size < 4 THEN [p |-> noPacket, err |-> Panic("slice bounds out of range")]
    ELSE parseBody(TakeBytes(DropBytes(data, 4), sz.size - 4), sz.size)

\* parsePacket(data): the packet and the error
parsePacket(data) ==
    IF ByteLen(data) < 6 THEN [p |-> noPacket, err |-> <<"packet too short">>]
    ELSE IF \E k \in 0..3 : ByteAt(data, k) = Opaque
    THEN [p |-> noPacket, err |-> Undetermined]
    ELSE parseSized(data, parseSize(data))

\* mutant: the line feed is not counted
packetSizeNoNewline(field, data) == 4 + ByteLen(field) + 1 + ByteLen(data)
packetSize(field, data) == 4 + ByteLen(field) + 1 + ByteLen(data) + 1

hexDigits == <<48, 49, 50, 51, 52, 53, 54, 55, 56, 57, 97, 98, 99, 100, 101, 102>>

appendSize(data, size) ==
    data \o <<B(hexDigits[(size \div 4096) + 1]),
              B(hexDigits[((size \div 256) % 16) + 1]),
              B(hexDigits[((size \div 16) % 16) + 1]),
              B(hexDigits[(size % 16) + 1])>>

\* appendPacket from "if plen > maxPacketLen" on
appendSized(b, field, data, plen) ==
    IF plen > maxPacketLen THEN [buf |-> <<>>, ok |-> FALSE]
    ELSE [buf |-> appendSize(b, plen) \o field \o <<B(32)>> \o data \o <<B(10)>>,
          ok |-> TRUE]

\* appendPacket(buf, field, data): the buffer and ok
appendPacket(b, field, data) == appendSized(b, field, data, packetSize(field, data))

----------------------------------------------------------------------------
(* Packets written to and read from a buffer.  A writer appends packets with *)
(* the field names of the encoding; bytes may also arrive from outside; a    *)
(* reader parses the packet at the front and steps over it, as the           *)
(* unmarshalling loops do.                                                   *)
MaxPackets == 2

PacketFields ==
    {fieldNameLocation, fieldNameIdentifier, fieldNameSignature,
     fieldNameCaveatId, fieldNameVerificationId, fieldNameCaveatLocation}

\* data: none, a space, bytes ending in a line feed, 32 bytes, and two sizes
\* around the largest that fits a packet
PacketData ==
    {<<>>, <<B(32)>>, <<B(120), B(10)>>, <<Rnd(1, hashLen)>>,
     <<Rnd(2, maxPacketLen - 9)>>, <<Rnd(3, maxPacketLen - 8)>>}

\* a well-formed packet, for the dialect check of the size digits
WellFormedPacket == Str(<<48, 48, 48, 97, 97, 98, 32, 99, 100, 10>>)   \* "000aab cd\n"

MalformedPackets ==
    {Str(<<48, 48, 48, 53, 97>>),   \* "0005a": 5 bytes
     Str(<<48, 48, 48, 65, 97, 98, 32, 99, 100, 10>>),   \* "000Aab cd\n": an upper-case digit in the size
     Str(<<48, 48, 122, 54, 97, 32, 10>>),   \* "00z6a \n": a size that is not hexadecimal
     Str(<<48, 48, 49, 52, 102, 105, 101, 108, 100>>),   \* "0014field": a size beyond the bytes at hand
     Str(<<48, 48, 48, 48, 97, 98>>),   \* "0000ab": a size of 0
     Str(<<48, 48, 48, 51, 97, 98, 32, 99, 10>>),   \* "0003ab c\n": a size of 3, less than the size field itself
     Str(<<48, 48, 48, 52, 97, 98>>),   \* "0004ab": a size of 4: nothing after the size field
     Str(<<48, 48, 48, 55, 97, 98, 99>>),   \* "0007abc": no space
     Str(<<48, 48, 48, 56, 32, 97, 98, 10>>),   \* "0008 ab\n": an empty field name
     Str(<<48, 48, 48, 54, 97, 32>>),   \* "0006a ": no line feed: the space is the last byte
     Str(<<48, 48, 48, 57, 97, 32, 98, 99, 100>>)}   \* "0009a bcd": no line feed

\* the packets at the front of b
RECURSIVE PacketsIn(_)
PacketsAfter(b, r) ==
    IF r.err # Nil THEN 0 ELSE 1 + PacketsIn(DropBytes(b, r.p.totalLen))
PacketsIn(b) == IF b = <<>> THEN 0 ELSE PacketsAfter(b, parsePacket(b))

\* buf, ok = appendPacket(buf, field, data)
Appended(field, data, r) ==
    /\ buf' = r.buf
    /\ result' = [op |-> "appendPacket", field |-> field, data |-> data, ok |-> r.ok]
DoAppendPacket(field, data) ==
    /\ PacketsIn(buf) < MaxPackets
    /\ IF buf = <<>> THEN TRUE ELSE PacketsIn(buf) > 0
    /\ Appended(field, data, appendPacket(buf, field, data))
    /\ UNCHANGED <<macs, rootKeys, minted, boundTo, heap, store>>

\* bytes arrive from outside
DoReceive(input) ==
    /\ buf = <<>>
    /\ buf' = input
    /\ result' = [op |-> "receive"]
    /\ UNCHANGED <<macs, rootKeys, minted, boundTo, heap, store>>

\* p, err := parsePacket(buf); if err == nil { buf = buf[p.totalLen:] }
Parsed(r) ==
    /\ result' = [op |-> "parsePacket", input |-> buf, p |-> r.p, err |-> r.err]
    /\ buf' = IF r.err = Nil THEN DropBytes(buf, r.p.totalLen) ELSE buf
DoParsePacket ==
    /\ Parsed(parsePacket(buf))
    /\ UNCHANGED <<macs, rootKeys, minted, boundTo, heap, store>>

NextPacket ==
    \/ \E field \in PacketFields, data \in PacketData : DoAppendPacket(field, data)
    \/ \E input \in MalformedPackets \cup {WellFormedPacket} : DoReceive(input)
    \/ DoParsePacket

SpecPacket == Init /\ [][NextPacket]_vars

----------------------------------------------------------------------------
(* C19: appendPacket(field, data) emits four lower-case hexadecimal digits   *)
(* holding total = 4 + len(field) + 1 + len(data) + 1, then the field name,  *)
(* one space, the data and one line feed, and refuses exactly when total is  *)
(* more than 65535; parsePacket on the emitted bytes, also with more bytes   *)
(* after them, returns that field name, that data and that total.  The       *)
(* field names are those of the encoding.                                    *)
LowerHexValue(b) ==
    IF b \in 48..57 THEN b - 48 ELSE IF b \in 97..102 THEN b - 87 ELSE Opaque
Followers ==
    {<<>>, <<B(0)>>, Str(<<48, 48, 48, 55, 99, 108, 32>>), <<Rnd(4, hashLen)>>}
AppendStep ==
    result'.op = "appendPacket" =>
        LET field == result'.field
            data == result'.data
            total == 4 + Len(field) + 1 + ByteLen(data) + 1
            emitted == DropBytes(buf', ByteLen(buf))
            digit(k) == LowerHexValue(ByteAt(emitted, k))
        IN  /\ result'.ok <=> total <= 65535
            /\ ~result'.ok => buf' = <<>>
            /\ result'.ok =>
                 /\ TakeBytes(buf', ByteLen(buf)) = buf
                 /\ ByteLen(emitted) = total
                 /\ \A k \in 0..3 : digit(k) \in 0..15
                 /\ digit(0) * 4096 + digit(1) * 256 + digit(2) * 16 + digit(3) = total
                 /\ DropBytes(emitted, 4) = field \o <<B(32)>> \o data \o <<B(10)>>
                 /\ \A rest \in Followers :
                       parsePacket(emitted \o rest) =
                           [p |-> [fieldName |-> field, data |-> data, totalLen |-> total],
                            err |-> Nil]
Thm_C19 == [][AppendStep]_vars

\* a packet of exactly 65535 bytes was appended behind another packet, and
\* the reader has parsed the first of the two
Wit_C19 ==
    /\ "op" \in DOMAIN result /\ result.op = "parsePacket"
    /\ result.err = Nil
    /\ result.p.totalLen < maxPacketLen
    /\ ByteLen(buf) = maxPacketLen
    /\ parsePacket(buf).err = Nil

----------------------------------------------------------------------------
(* C20: parsePacket rejects every malformed packet with an error, without    *)
(* panicking and without returning a packet: fewer than 6 bytes, a size that *)
(* is not four lower-case hexadecimal digits, a size beyond the bytes at     *)
(* hand or below the 4 bytes of the size itself, a missing or empty field    *)
(* name, a last byte that is not a line feed.                                *)
ParsedMalformed ==
    /\ "op" \in DOMAIN result /\ result.op = "parsePacket"
    /\ result.input \in MalformedPackets
Cex_C20 ==
    ParsedMalformed => /\ result.err # Nil
                       /\ result.err[1] # "panic"
                       /\ result.p = noPacket

----------------------------------------------------------------------------
(* marshal-v1.go: the binary encoding of a macaroon and of a slice of        *)
(* macaroons.  appendPacketV1 and parsePacketV1 are appendPacket and         *)
(* parsePacket of packet.go.  A nil verification id is the empty one: the    *)
(* Add operations give a first-party caveat no verification id, and a        *)
(* third-party caveat one that is never empty.                               *)
ErrTooLong(what) == <<"failed to append to macaroon, packet is too long", what>>
ErrUnexpectedField(field) == <<"unexpected field", field>>
ErrRepeatedField(field) == <<"repeated field in caveat", field>>
ErrSignatureLength(n) == <<"signature has unexpected length", n>>

\* the loop over m.caveats of appendBinary, from caveat k on; c, v and l
\* are what appendPacketV1 returned for the caveat id, the verification id
\* and the location
RECURSIVE appendBinaryCaveats(_, _, _)
appendedCaveatLocation(m, k, l) ==
    IF ~l.ok THEN [data |-> <<>>, err |-> ErrTooLong("verification id")]
    ELSE appendBinaryCaveats(m, l.buf, k + 1)
appendedVerificationId(m, k, v) ==
    IF ~v.ok THEN [data |-> <<>>, err |-> ErrTooLong("verification id")]
    ELSE appendedCaveatLocation(m, k,
             appendPacket(v.buf, fieldNameCaveatLocation, m.caveats[k].location))
appendedCaveatId(m, k, c) ==
    IF ~c.ok THEN [data |-> <<>>, err |-> ErrTooLong("caveat id")]
    ELSE IF m.caveats[k].verificationId = <<>> THEN appendBinaryCaveats(m, c.buf, k + 1)
    ELSE appendedVerificationId(m, k,
             appendPacket(c.buf, fieldNameVerificationId, m.caveats[k].verificationId))
appendBinaryCaveats(m, data, k) ==
    IF k > Len(m.caveats) THEN [data |-> data, err |-> Nil]
    ELSE appendedCaveatId(m, k, appendPacket(data, fieldNameCaveatId, m.caveats[k].caveatId))

\* m.appendBinary(data): the bytes and the error; loc, id, cavs and sig are
\* what the steps returned
appendedSignature(sig) ==
    IF ~sig.ok THEN [data |-> <<>>, err |-> ErrTooLong("signature")]
    ELSE [data |-> sig.buf, err |-> Nil]
appendedCaveats(m, cavs) ==
    IF cavs.err # Nil THEN cavs
    ELSE appendedSignature(appendPacket(cavs.data, fieldNameSignature, m.sig))
appendedIdentifier(m, id) ==
    IF ~id.ok THEN [data |-> <<>>, err |-> ErrTooLong("identifier")]
    ELSE appendedCaveats(m, appendBinaryCaveats(m, id.buf, 1))
appendedLocation(m, loc) ==
    IF ~loc.ok THEN [data |-> <<>>, err |-> ErrTooLong("location")]
    ELSE appendedIdentifier(m, appendPacket(loc.buf, fieldNameIdentifier, m.id))
appendBinary(m, data) ==
    appendedLocation(m, appendPacket(data, fieldNameLocation, m.location))

\* m.MarshalBinary()
MarshalBinaryV1(m) == appendBinary(m, <<>>)

\* var m Macaroon
zeroMacaroon == [location |-> <<>>, id |-> <<>>, caveats |-> <<>>, sig |-> <<Zeros(hashLen)>>]
\* var cav Caveat, with whether Id and VerificationId are non-nil
zeroCav == [Id |-> <<>>, idSet |-> FALSE, VerificationId |-> <<>>, vidSet |-> FALSE,
            Location |-> <<>>]

\* expectPacketV1(data, kind), r being what parsePacketV1(data) returned
expectedPacket(r, kind) ==
    IF r.err # Nil THEN r
    ELSE IF r.p.fieldName # kind
    THEN [p |-> noPacket, err |-> ErrUnexpectedField(r.p.fieldName)]
    ELSE r
expectPacketV1(data, kind) == expectedPacket(parsePacket(data), kind)

\* "if cav.Id != nil { m.caveats = append(m.caveats, cav) }"
appendCav(m, cav) ==
    IF cav.idSet
    THEN [m EXCEPT !.caveats = Append(@, Caveat(cav.Location, cav.Id, cav.VerificationId))]
    ELSE m

\* the loop "for { p, err := parsePacketV1(data) ... }" of
\* unmarshalBinaryNoCopy, with cav as it stands; p is the packet parsed and
\* rest the bytes after it
RECURSIVE unmarshalCaveats(_, _, _)
unmarshalField(m, rest, cav, p) ==
    IF p.fieldName = fieldNameSignature
    THEN IF ByteLen(p.data) # hashLen
         THEN [m |-> appendCav(m, cav), rest |-> <<>>,
               err |-> ErrSignatureLength(ByteLen(p.data))]
         ELSE [m |-> [appendCav(m, cav) EXCEPT !.sig = p.data], rest |-> rest, err |-> Nil]
    ELSE IF p.fieldName = fieldNameCaveatId
    THEN unmarshalCaveats(appendCav(m, cav), rest,
                          [(IF cav.idSet THEN zeroCav ELSE cav)
                              EXCEPT !.Id = p.data, !.idSet = TRUE])
    ELSE IF p.fieldName = fieldNameVerificationId
    THEN IF cav.vidSet
         THEN [m |-> m, rest |-> <<>>, err |-> ErrRepeatedField(fieldNameVerificationId)]
         ELSE unmarshalCaveats(m, rest, [cav EXCEPT !.VerificationId = p.data,
                                                    !.vidSet = TRUE])
    ELSE IF p.fieldName = fieldNameCaveatLocation
    THEN IF cav.Location # <<>>
         THEN [m |-> m, rest |-> <<>>, err |-> ErrRepeatedField(fieldNameLocation)]
         ELSE unmarshalCaveats(m, rest, [cav EXCEPT !.Location = p.data])
    ELSE [m |-> m, rest |-> <<>>, err |-> ErrUnexpectedField(p.fieldName)]
unmarshalPacket(m, data, cav, r) ==
    IF r.err # Nil THEN [m |-> m, rest |-> <<>>, err |-> r.err]
    ELSE unmarshalField(m, DropBytes(data, r.p.totalLen), cav, r.p)
unmarshalCaveats(m, data, cav) == unmarshalPacket(m, data, cav, parsePacket(data))

\* m.unmarshalBinaryNoCopy(data): the receiver afterwards, the bytes after
\* the macaroon, and the error; loc and id are what expectPacketV1 returned
unmarshalAfterIdentifier(m, data, id) ==
    IF id.err # Nil THEN [m |-> m, rest |-> <<>>, err |-> id.err]
    ELSE unmarshalCaveats([m EXCEPT !.id = id.p.data], DropBytes(data, id.p.totalLen), zeroCav)
unmarshalIdentifier(m, data) ==
    unmarshalAfterIdentifier(m, data, expectPacketV1(data, fieldNameIdentifier))
unmarshalAfterLocation(m, data, loc) ==
    IF loc.err # Nil THEN [m |-> m, rest |-> <<>>, err |-> loc.err]
    ELSE unmarshalIdentifier([m EXCEPT !.location = loc.p.data],
                             DropBytes(data, loc.p.totalLen))
unmarshalBinaryNoCopy(m, data) ==
    unmarshalAfterLocation(m, data, expectPacketV1(data, fieldNameLocation))

\* m.UnmarshalBinary(data)
UnmarshalBinaryV1(m, data) == unmarshalBinaryNoCopy(m, data)

\* the loop of Slice.MarshalBinary, from macaroon k on; r is what
\* appendBinary returned for macaroon k
RECURSIVE SliceAppendBinary(_, _, _)
SliceAppended(s, k, r) ==
    IF r.err # Nil
    THEN [data |-> <<>>, err |-> <<"failed to marshal macaroon", s[k].id, r.err>>]
    ELSE SliceAppendBinary(s, r.data, k + 1)
SliceAppendBinary(s, data, k) ==
    IF k > Len(s) THEN [data |-> data, err |-> Nil]
    ELSE SliceAppended(s, k, appendBinary(s[k], data))
SliceMarshalBinary(s) == SliceAppendBinary(s, <<>>, 1)

\* the loop "for len(data) > 0" of Slice.UnmarshalBinary; r is what
\* unmarshalBinaryNoCopy returned
RECURSIVE SliceUnmarshalLoop(_, _)
\* mutant: the loop ends after the first macaroon
SliceUnmarshalledLast(s, r) ==
    IF r.err # Nil THEN [s |-> s, err |-> <<"cannot unmarshal macaroon", r.err>>]
    ELSE [s |-> Append(s, r.m), err |-> Nil]
SliceUnmarshalFirstOnly(s, data) ==
    IF data = <<>> THEN [s |-> s, err |-> Nil]
    ELSE SliceUnmarshalledLast(s, unmarshalBinaryNoCopy(zeroMacaroon, data))
SliceUnmarshalled(s, r) ==
    IF r.err # Nil THEN [s |-> s, err |-> <<"cannot unmarshal macaroon", r.err>>]
    ELSE SliceUnmarshalLoop(Append(s, r.m), r.rest)
SliceUnmarshalLoop(s, data) ==
    IF data = <<>> THEN [s |-> s, err |-> Nil]
    ELSE SliceUnmarshalled(s, unmarshalBinaryNoCopy(zeroMacaroon, data))
\* s.UnmarshalBinary(data): *s = (*s)[:0], then the loop
SliceUnmarshalBinary(data) == SliceUnmarshalLoop(<<>>, data)

----------------------------------------------------------------------------
(* Macaroons are minted and given caveats, marshalled together as a Slice,   *)
(* and the bytes are unmarshalled into a new Slice.                          *)
SliceMarshalled(r) ==
    /\ buf' = r.data
    /\ result' = [op |-> "Slice.MarshalBinary", err |-> r.err]
DoSliceMarshalBinary ==
    /\ SliceMarshalled(SliceMarshalBinary(macs))
    /\ UNCHANGED <<macs, rootKeys, minted, boundTo, heap, store>>

\* err := s.UnmarshalBinary(buf), and s.MarshalBinary() after it
SliceRead(r) ==
    result' = [op |-> "Slice.UnmarshalBinary", s |-> r.s, err |-> r.err,
               again |-> SliceMarshalBinary(r.s)]
DoSliceUnmarshalBinary ==
    /\ "op" \in DOMAIN result
    /\ result.op = "Slice.MarshalBinary"
    /\ result.err = Nil
    /\ SliceRead(SliceUnmarshalBinary(buf))
    /\ UNCHANGED <<macs, rootKeys, minted, boundTo, heap, buf, store>>

NextSlice ==
    \/ DoNew(KeyA, IF macs = <<>> THEN IdR ELSE IdX, LocA)
    \/ \E i \in DOMAIN macs : DoAddFirstPartyCaveat(i, Cond1)
    \/ \E i \in DOMAIN macs, loc \in {LocA, <<>>}, n \in Nonces :
          DoAddThirdPartyCaveat(i, KeyA, IdX, loc, n)
    \/ \E i \in DOMAIN macs \ {1} : boundTo[i] = <<>> /\ DoBind(i, 1)
    \/ DoSliceMarshalBinary
    \/ DoSliceUnmarshalBinary

SpecSlice == Init /\ [][NextSlice]_vars

----------------------------------------------------------------------------
(* C16: Slice.MarshalBinary is the encodings of the members one after the    *)
(* other with nothing between them; Slice.UnmarshalBinary of these bytes     *)
(* gives as many macaroons, in the same order, with the same location, id,   *)
(* caveats and signature; marshalling the decoded slice gives the same bytes.*)
RECURSIVE Encodings(_)
Encodings(ms) ==
    IF ms = <<>> THEN <<>> ELSE MarshalBinaryV1(Head(ms)).data \o Encodings(Tail(ms))
SliceDecoded == "op" \in DOMAIN result /\ result.op = "Slice.UnmarshalBinary"
Thm_C16 ==
    SliceDecoded =>
        /\ buf = Encodings(macs)
        /\ result.err = Nil
        /\ Len(result.s) = Len(macs)
        /\ \A i \in DOMAIN macs :
              /\ result.s[i].location = macs[i].location
              /\ result.s[i].id = macs[i].id
              /\ result.s[i].sig = macs[i].sig
              /\ result.s[i].caveats = macs[i].caveats
        /\ result.again = [data |-> buf, err |-> Nil]

\* a slice of a primary with a third-party caveat followed by a first-party
\* caveat, and two more macaroons of which one is bound
Wit_C16 ==
    /\ SliceDecoded
    /\ Len(macs) = 3
    /\ Len(macs[1].caveats) = 2
    /\ IsThirdParty(macs[1].caveats[1]) /\ ~IsThirdParty(macs[1].caveats[2])
    /\ \E i \in DOMAIN macs : boundTo[i] # <<>>

----------------------------------------------------------------------------
(* marshal.go with the packets of the second part of packet.go: the binary   *)
(* encoding kept in Macaroon.data.  A packet is a reference (start,          *)
(* totalLen, headerLen) into the data, and has no line feed at its end.      *)
fieldLocation == Str(<<108, 111, 99, 97, 116, 105, 111, 110>>)
fieldIdentifier == Str(<<105, 100, 101, 110, 116, 105, 102, 105, 101, 114>>)
fieldSignature == Str(<<115, 105, 103, 110, 97, 116, 117, 114, 101>>)
fieldCaveatId == Str(<<99, 105, 100>>)
fieldVerificationId == Str(<<118, 105, 100>>)
fieldCaveatLocation == Str(<<108, 111, 99, 97, 116, 105, 111, 110>>)

packetRef(start, totalLen, headerLen) ==
    [start |-> start, totalLen |-> totalLen, headerLen |-> headerLen]
noPacketRef == packetRef(0, 0, 0)

\* m.dataBytes(p) and m.fieldName(p), for m.data = data
dataBytes(data, p) ==
    TakeBytes(DropBytes(data, p.start + p.headerLen), p.totalLen - p.headerLen)
fieldName(data, p) ==
    TakeBytes(DropBytes(data, p.start + 4), p.headerLen - 1 - 4)

\* m.parsePacket(start), for m.data = data; d is data[start:], sz what
\* parseSize returned and i the index of the space
Macaroon_parsedField(start, plen, i) ==
    IF i = Opaque THEN [p |-> noPacketRef, err |-> Undetermined]
    ELSE IF i <= 0 THEN [p |-> noPacketRef, err |-> <<"cannot parse field name">>]
    ELSE [p |-> packetRef(start, plen, 4 + i + 1), err |-> Nil]
Macaroon_parsedSize(d, start, sz) ==
    IF ~sz.ok THEN [p |-> noPacketRef, err |-> <<"cannot parse size">>]
    ELSE IF sz.size > ByteLen(d) THEN [p |-> noPacketRef, err |-> <<"packet size too big">>]
    ELSE IF sz.size < 4 THEN [p |-> noPacketRef, err |-> Panic("slice bounds out of range")]
    ELSE Macaroon_parsedField(start, sz.size,
                              IndexByte(TakeBytes(DropBytes(d, 4), sz.size - 4), 32))
Macaroon_parseFrom(d, start) ==
    IF ByteLen(d) < 6 THEN [p |-> noPacketRef, err |-> <<"packet too short">>]
    ELSE IF \E k \in 0..3 : ByteAt(d, k) = Opaque
    THEN [p |-> noPacketRef, err |-> Undetermined]
    ELSE Macaroon_parsedSize(d, start, parseSize(d))
Macaroon_parsePacket(data, start) == Macaroon_parseFrom(DropBytes(data, start), start)

\* m.appendPacket(field, data), for m.data = mdata: the data afterwards, the
\* packet and the error
Macaroon_appendSized(mdata, field, data, plen) ==
    IF plen > maxPacketLen
    THEN [data |-> mdata, p |-> noPacketRef, err |-> <<"field is too big for macaroon", field>>]
    ELSE [data |-> appendSize(mdata, plen) \o field \o <<B(32)>> \o data,
          p |-> packetRef(ByteLen(mdata), plen, 4 + Len(field) + 1),
          err |-> Nil]
Macaroon_appendPacket(mdata, field, data) ==
    Macaroon_appendSized(mdata, field, data, 4 + Len(field) + 1 + ByteLen(data))

\* m.data as New and the Add operations of this revision leave it: the
\* packets location, identifier and, for each caveat, cid and, where not
\* empty, vid and the caveat's location
appendIfSet(mdata, field, data) ==
    IF data = <<>> THEN mdata ELSE Macaroon_appendPacket(mdata, field, data).data
RECURSIVE caveatData(_, _, _)
caveatData(m, mdata, k) ==
    IF k > Len(m.caveats) THEN mdata
    ELSE caveatData(m,
             appendIfSet(
                 appendIfSet(
                     Macaroon_appendPacket(mdata, fieldCaveatId, m.caveats[k].caveatId).data,
                     fieldVerificationId, m.caveats[k].verificationId),
                 fieldCaveatLocation, m.caveats[k].location),
             k + 1)
macaroonData(m) ==
    caveatData(m, Macaroon_appendPacket(
                      Macaroon_appendPacket(<<>>, fieldLocation, m.location).data,
                      fieldIdentifier, m.id).data, 1)

\* m.MarshalBinary(), for m.data = mdata and m.sig = sig: a copy of the data
\* followed by the signature packet
Macaroon_MarshalBinary(mdata, sig) ==
    Macaroon_appendPacket(mdata, fieldSignature, sig).data

\* m.expectPacket(start, kind), r being what m.parsePacket(start) returned
Macaroon_expectedPacket(data, start, kind, r) ==
    IF r.err # Nil THEN [start |-> 0, p |-> noPacketRef, err |-> r.err]
    ELSE IF fieldName(data, r.p) # kind
    THEN [start |-> 0, p |-> noPacketRef, err |-> ErrUnexpectedField(fieldName(data, r.p))]
    ELSE [start |-> start + r.p.totalLen, p |-> r.p, err |-> Nil]
Macaroon_expectPacket(data, start, kind) ==
    Macaroon_expectedPacket(data, start, kind, Macaroon_parsePacket(data, start))

\* var cav caveat
zeroCaveatRef == [caveatId |-> noPacketRef, verificationId |-> noPacketRef,
                  location |-> noPacketRef]
\* the caveat a triple of packets stands for
caveatOf(data, cav) ==
    Caveat(dataBytes(data, cav.location), dataBytes(data, cav.caveatId),
           dataBytes(data, cav.verificationId))
\* "if cav.caveatId.len() != 0 { m.caveats = append(m.caveats, cav) }"
appendCaveatRef(m, data, cav) ==
    IF cav.caveatId.totalLen # 0
    THEN [m EXCEPT !.caveats = Append(@, caveatOf(data, cav))]
    ELSE m

\* the loop "for { p, err := m.parsePacket(start) ... }" of UnmarshalBinary:
\* the receiver's fields, its data and the error; cav is never cleared
RECURSIVE Macaroon_unmarshalLoop(_, _, _, _)
Macaroon_unmarshalField(m, data, cav, p, field) ==
    IF field = fieldSignature
    THEN [m |-> [appendCaveatRef(m, data, cav) EXCEPT !.sig = dataBytes(data, p)],
          data |-> TakeBytes(data, p.start), err |-> Nil]
    ELSE IF field = fieldCaveatId
    THEN Macaroon_unmarshalLoop(appendCaveatRef(m, data, cav), data, p.start + p.totalLen,
                                [cav EXCEPT !.caveatId = p])
    ELSE IF field = fieldVerificationId
    THEN IF cav.verificationId.totalLen # 0
         THEN [m |-> m, data |-> data, err |-> ErrRepeatedField(fieldVerificationId)]
         ELSE Macaroon_unmarshalLoop(m, data, p.start + p.totalLen,
                                     [cav EXCEPT !.verificationId = p])
    ELSE IF field = fieldCaveatLocation
    THEN IF cav.location.totalLen # 0
         THEN [m |-> m, data |-> data, err |-> ErrRepeatedField(fieldLocation)]
         ELSE Macaroon_unmarshalLoop(m, data, p.start + p.totalLen,
                                     [cav EXCEPT !.location = p])
    ELSE [m |-> m, data |-> data, err |-> ErrUnexpectedField(field)]
Macaroon_unmarshalPacket(m, data, cav, r) ==
    IF r.err # Nil THEN [m |-> m, data |-> data, err |-> r.err]
    ELSE Macaroon_unmarshalField(m, data, cav, r.p, fieldName(data, r.p))
Macaroon_unmarshalLoop(m, data, start, cav) ==
    Macaroon_unmarshalPacket(m, data, cav, Macaroon_parsePacket(data, start))

\* m.UnmarshalBinary(data): the receiver's fields, its data and the error;
\* loc and id are what m.expectPacket returned
Macaroon_unmarshalAfterIdentifier(m, data, id) ==
    IF id.err # Nil THEN [m |-> [m EXCEPT !.id = <<>>], data |-> data, err |-> id.err]
    ELSE Macaroon_unmarshalLoop([m EXCEPT !.id = dataBytes(data, id.p)], data, id.start,
                                zeroCaveatRef)
Macaroon_unmarshalAfterLocation(m, data, loc) ==
    IF loc.err # Nil THEN [m |-> [m EXCEPT !.location = <<>>], data |-> data, err |-> loc.err]
    ELSE Macaroon_unmarshalAfterIdentifier([m EXCEPT !.location = dataBytes(data, loc.p)], data,
             Macaroon_expectPacket(data, loc.start, fieldIdentifier))
Macaroon_UnmarshalBinary(m, data) ==
    Macaroon_unmarshalAfterLocation(m, data, Macaroon_expectPacket(data, 0, fieldLocation))

\* var m Macaroon of this revision
emptyMacaroon == [location |-> <<>>, id |-> <<>>, caveats |-> <<>>, sig |-> <<>>]

----------------------------------------------------------------------------
(* A macaroon is minted and given caveats, marshalled, and the bytes are     *)
(* unmarshalled into a new macaroon, which is marshalled again.              *)
DoMarshalBinary(i) ==
    /\ buf' = Macaroon_MarshalBinary(macaroonData(macs[i]), macs[i].sig)
    /\ result' = [op |-> "MarshalBinary", of |-> i]
    /\ UNCHANGED <<macs, rootKeys, minted, boundTo, heap, store>>

\* var um Macaroon; err := um.UnmarshalBinary(buf); um.MarshalBinary()
Unmarshal(r) ==
    result' = [op |-> "UnmarshalBinary", of |-> result.of, um |-> r.m, err |-> r.err,
               again |-> Macaroon_MarshalBinary(r.data, r.m.sig)]
DoUnmarshalBinary ==
    /\ "op" \in DOMAIN result
    /\ result.op = "MarshalBinary"
    /\ Unmarshal(Macaroon_UnmarshalBinary(emptyMacaroon, buf))
    /\ UNCHANGED <<macs, rootKeys, minted, boundTo, heap, buf, store>>

NextBinary ==
    \/ DoNew(KeyA, IF macs = <<>> THEN IdR ELSE IdX, LocA)
    \/ \E i \in DOMAIN macs : DoAddFirstPartyCaveat(i, Cond1)
    \/ \E i \in DOMAIN macs, loc \in {LocA, <<>>}, n \in Nonces :
          DoAddThirdPartyCaveat(i, KeyA, IdX, loc, n)
    \/ \E i \in DOMAIN macs \ {1} : boundTo[i] = <<>> /\ DoBind(i, 1)
    \/ \E i \in DOMAIN macs : DoMarshalBinary(i)
    \/ DoUnmarshalBinary

SpecBinary == Init /\ [][NextBinary]_vars

----------------------------------------------------------------------------
(* C15: for every macaroon with first- and third-party caveats in any order, *)
(* UnmarshalBinary of its MarshalBinary succeeds and gives the same          *)
(* location, id and signature and, caveat by caveat, the same id,            *)
(* verification id and location, a first-party caveat after a third-party    *)
(* caveat coming back with empty verification id and location; marshalling   *)
(* the result gives the same bytes.                                          *)
Unmarshalled == "op" \in DOMAIN result /\ result.op = "UnmarshalBinary"
Cex_C15 ==
    Unmarshalled =>
        /\ result.err = Nil
        /\ result.um.location = macs[result.of].location
        /\ result.um.id = macs[result.of].id
        /\ result.um.sig = macs[result.of].sig
        /\ result.um.caveats = macs[result.of].caveats
        /\ result.again = buf

----------------------------------------------------------------------------
(* macaroon.go: the JSON encoding.  A text is a sequence of byte tokens; the *)
(* hexadecimal text of a token whose bytes are not followed is one token     *)
(* <<"hex", tok>>, which holds two digits for each byte of tok.              *)

\* encoding/hex: EncodeToString(src)
hexOf(tok) ==
    IF tok[1] = "b"
    THEN <<B(hexDigits[(tok[2] \div 16) + 1]), B(hexDigits[(tok[2] % 16) + 1])>>
    ELSE << <<"hex", tok>> >>
RECURSIVE EncodeToString(_)
EncodeToString(src) ==
    IF src = <<>> THEN <<>> ELSE hexOf(Head(src)) \o EncodeToString(Tail(src))

\* encoding/hex: fromHexChar(c), which takes both cases of a to f
fromHexChar(c) ==
    IF c >= 48 /\ c <= 57 THEN [d |-> c - 48, ok |-> TRUE]
    ELSE IF c >= 97 /\ c <= 102 THEN [d |-> c - 97 + 10, ok |-> TRUE]
    ELSE IF c >= 65 /\ c <= 70 THEN [d |-> c - 65 + 10, ok |-> TRUE]
    ELSE [d |-> 0, ok |-> FALSE]
ErrLength == <<"encoding/hex: odd length hex string">>
InvalidByteError(c) == <<"encoding/hex: invalid byte", c>>

\* encoding/hex: DecodeString(s), the bytes decoded and the error; out is
\* what has been decoded, a and b the values of the next two digits
RECURSIVE decodeHex(_, _)
decodedPair(s, out, p, q, a, b) ==
    IF ~a.ok THEN [bytes |-> out, err |-> InvalidByteError(p)]
    ELSE IF ~b.ok THEN [bytes |-> out, err |-> InvalidByteError(q)]
    ELSE decodeHex(Tail(Tail(s)), out \o <<B(a.d * 16 + b.d)>>)
decodeHex(s, out) ==
    IF s = <<>> THEN [bytes |-> out, err |-> Nil]
    ELSE IF Head(s)[1] = "hex" THEN decodeHex(Tail(s), out \o <<Head(s)[2]>>)
    ELSE IF Head(s)[1] # "b" THEN [bytes |-> out, err |-> Undetermined]
    ELSE IF Len(s) = 1
    THEN [bytes |-> out,
          err |-> IF fromHexChar(Head(s)[2]).ok THEN ErrLength
                  ELSE InvalidByteError(Head(s)[2])]
    ELSE IF s[2][1] # "b" THEN [bytes |-> out, err |-> Undetermined]
    ELSE decodedPair(s, out, s[1][2], s[2][2], fromHexChar(s[1][2]), fromHexChar(s[2][2]))
DecodeString(s) == decodeHex(s, <<>>)

\* unicode/utf8: the byte s[i] of a text, counted from 1; -1 beyond the end
\* and Opaque inside hexadecimal text
CharAt(s, i) ==
    IF i > Len(s) THEN -1 ELSE IF s[i][1] = "b" THEN s[i][2] ELSE Opaque
\* whether c is a continuation byte within lo..hi
Cont(c, lo, hi) == c >= lo /\ c <= hi
\* the number of bytes of the encoding of one rune that starts at s[i]; 0
\* when the bytes there are not a valid encoding (utf8.DecodeRune gives
\* RuneError with size 1)
runeSize(s, i) ==
    IF CharAt(s, i) < 128 THEN 1
    ELSE IF Cont(CharAt(s, i), 194, 223)
    THEN IF Cont(CharAt(s, i + 1), 128, 191) THEN 2 ELSE 0
    ELSE IF Cont(CharAt(s, i), 224, 239)
    THEN IF /\ Cont(CharAt(s, i + 1),
                    IF CharAt(s, i) = 224 THEN 160 ELSE 128,
                    IF CharAt(s, i) = 237 THEN 159 ELSE 191)
            /\ Cont(CharAt(s, i + 2), 128, 191)
         THEN 3 ELSE 0
    ELSE IF Cont(CharAt(s, i), 240, 244)
    THEN IF /\ Cont(CharAt(s, i + 1),
                    IF CharAt(s, i) = 240 THEN 144 ELSE 128,
                    IF CharAt(s, i) = 244 THEN 143 ELSE 191)
            /\ Cont(CharAt(s, i + 2), 128, 191)
            /\ Cont(CharAt(s, i + 3), 128, 191)
         THEN 4 ELSE 0
    ELSE 0

\* utf8.ValidString(s[i:])
RECURSIVE validFrom(_, _)
validRune(s, i, size) == size > 0 /\ validFrom(s, i + size)
validFrom(s, i) == i > Len(s) \/ validRune(s, i, runeSize(s, i))
ValidString(s) == validFrom(s, 1)

\* the UTF-8 encoding of the rune r (utf8.EncodeRune)
EncodeRune(r) ==
    IF r < 128 THEN <<B(r)>>
    ELSE IF r < 2048 THEN <<B(192 + (r \div 64)), B(128 + (r % 64))>>
    ELSE IF r < 65536
    THEN <<B(224 + (r \div 4096)), B(128 + ((r \div 64) % 64)), B(128 + (r % 64))>>
    ELSE <<B(240 + (r \div 262144)), B(128 + ((r \div 4096) % 64)),
           B(128 + ((r \div 64) % 64)), B(128 + (r % 64))>>
RuneError == 65533

\* encoding/json: the text of a string (encodeState.string with escapeHTML):
\* the quotation mark and the backslash get a backslash; line feed,
\* carriage return and tab their letter; the other control characters and
\* < > & the form \u00xx; a byte that is no valid UTF-8 becomes \ufffd;
\* U+2028 and U+2029 are written \u2028 and \u2029
escapeByte(c) ==
    IF c = 34 \/ c = 92 THEN <<B(92), B(c)>>
    ELSE IF c = 10 THEN <<B(92), B(110)>>
    ELSE IF c = 13 THEN <<B(92), B(114)>>
    ELSE IF c = 9 THEN <<B(92), B(116)>>
    ELSE IF c < 32 \/ c = 60 \/ c = 62 \/ c = 38
    THEN <<B(92), B(117), B(48), B(48),
           B(hexDigits[(c \div 16) + 1]), B(hexDigits[(c % 16) + 1])>>
    ELSE <<B(c)>>
RECURSIVE escapeFrom(_, _)
escapeRune(s, i, size) ==
    IF s[i][1] # "b" THEN <<s[i]>> \o escapeFrom(s, i + 1)
    ELSE IF size = 0
    THEN <<B(92), B(117), B(102), B(102), B(102), B(100)>> \o escapeFrom(s, i + 1)
    ELSE IF size = 1 THEN escapeByte(s[i][2]) \o escapeFrom(s, i + 1)
    ELSE IF size = 3 /\ s[i][2] = 226 /\ s[i + 1][2] = 128 /\ s[i + 2][2] \in {168, 169}
    THEN <<B(92), B(117), B(50), B(48), B(50), B(hexDigits[(s[i + 2][2] % 16) + 1])>>
         \o escapeFrom(s, i + 3)
    ELSE SubSeq(s, i, i + size - 1) \o escapeFrom(s, i + size)
escapeFrom(s, i) ==
    IF i > Len(s) THEN <<>> ELSE escapeRune(s, i, runeSize(s, i))
\* mutant: no character is escaped
jsonStringRaw(s) == <<B(34)>> \o s \o <<B(34)>>
jsonString(s) == <<B(34)>> \o escapeFrom(s, 1) \o <<B(34)>>

SyntaxError(msg) == <<"json: syntax error", msg>>

\* encoding/json: the four hexadecimal digits after \u (getu4): the rune,
\* or -1
getu4(d, i) ==
    IF \A k \in 0..3 : CharAt(d, i + k) >= 0 /\ fromHexChar(CharAt(d, i + k)).ok
    THEN fromHexChar(CharAt(d, i)).d * 4096 + fromHexChar(CharAt(d, i + 1)).d * 256
         + fromHexChar(CharAt(d, i + 2)).d * 16 + fromHexChar(CharAt(d, i + 3)).d
    ELSE -1
\* the rune the escape after this one adds to a high surrogate, or -1
lowSurrogate(d, i) ==
    IF CharAt(d, i) = 92 /\ CharAt(d, i + 1) = 117 /\ Cont(getu4(d, i + 2), 56320, 57343)
    THEN getu4(d, i + 2)
    ELSE -1

\* encoding/json: the string whose text starts after the quotation mark at
\* d[i - 1] (unquote): the string, the place after the closing quotation
\* mark, and the error; out is the string so far
RECURSIVE unquoteFrom(_, _, _)
unquoteU(d, i, out, r, low) ==
    IF r < 0 THEN [s |-> out, next |-> i, err |-> SyntaxError("invalid character in \\u escape")]
    ELSE IF Cont(r, 55296, 56319) /\ low >= 0
    THEN unquoteFrom(d, i + 12,
                     out \o EncodeRune(65536 + (r - 55296) * 1024 + (low - 56320)))
    ELSE IF Cont(r, 55296, 57343) THEN unquoteFrom(d, i + 6, out \o EncodeRune(RuneError))
    ELSE unquoteFrom(d, i + 6, out \o EncodeRune(r))
unquoteEscape(d, i, out, e) ==
    IF e = 34 \/ e = 92 \/ e = 47 THEN unquoteFrom(d, i + 2, out \o <<B(e)>>)
    ELSE IF e = 98 THEN unquoteFrom(d, i + 2, out \o <<B(8)>>)
    ELSE IF e = 102 THEN unquoteFrom(d, i + 2, out \o <<B(12)>>)
    ELSE IF e = 110 THEN unquoteFrom(d, i + 2, out \o <<B(10)>>)
    ELSE IF e = 114 THEN unquoteFrom(d, i + 2, out \o <<B(13)>>)
    ELSE IF e = 116 THEN unquoteFrom(d, i + 2, out \o <<B(9)>>)
    ELSE IF e = 117 THEN unquoteU(d, i, out, getu4(d, i + 2), lowSurrogate(d, i + 6))
    ELSE [s |-> out, next |-> i,
          err |-> SyntaxError("invalid character in string escape code")]
unquoteRune(d, i, out, c, size) ==
    IF c = -1 THEN [s |-> out, next |-> i, err |-> SyntaxError("unexpected end of JSON input")]
    ELSE IF c = Opaque THEN unquoteFrom(d, i + 1, out \o <<d[i]>>)
    ELSE IF c = 34 THEN [s |-> out, next |-> i + 1, err |-> Nil]
    ELSE IF c = 92 THEN unquoteEscape(d, i, out, CharAt(d, i + 1))
    ELSE IF c < 32
    THEN [s |-> out, next |-> i, err |-> SyntaxError("invalid character in string literal")]
    ELSE IF size = 0 THEN unquoteFrom(d, i + 1, out \o EncodeRune(RuneError))
    ELSE unquoteFrom(d, i + size, out \o SubSeq(d, i, i + size - 1))
unquoteFrom(d, i, out) == unquoteRune(d, i, out, CharAt(d, i), runeSize(d, i))

\* the names of the fields of macaroonJSON and caveatJSON in the text
jsonName(f) ==
    CASE f = "caveats" -> Str(<<99, 97, 118, 101, 97, 116, 115>>)
      [] f = "location" -> Str(<<108, 111, 99, 97, 116, 105, 111, 110>>)
      [] f = "identifier" -> Str(<<105, 100, 101, 110, 116, 105, 102, 105, 101, 114>>)
      [] f = "signature" -> Str(<<115, 105, 103, 110, 97, 116, 117, 114, 101>>)
      [] f = "cid" -> Str(<<99, 105, 100>>)
      [] f = "vid" -> Str(<<118, 105, 100>>)
macaroonJSONFields == <<"caveats", "location", "identifier", "signature">>
caveatJSONFields == <<"location", "cid", "vid">>

\* "name":
jsonKey(f) == jsonString(jsonName(f)) \o <<B(58)>>

\* cav.MarshalJSON(): json.Marshal of caveatJSON{Location, CID, VID}
Caveat_MarshalJSON(cav) ==
    <<B(123)>> \o jsonKey("location") \o jsonString(cav.location)
    \o <<B(44)>> \o jsonKey("cid") \o jsonString(cav.caveatId)
    \o <<B(44)>> \o jsonKey("vid") \o jsonString(EncodeToString(cav.verificationId))
    \o <<B(125)>>

\* json.Marshal of []Caveat: null for the nil slice, else the caveats in
\* brackets with commas between them
RECURSIVE jsonCaveats(_, _)
jsonCaveats(cavs, k) ==
    IF k > Len(cavs) THEN <<B(93)>>
    ELSE (IF k = 1 THEN <<>> ELSE <<B(44)>>) \o Caveat_MarshalJSON(cavs[k])
         \o jsonCaveats(cavs, k + 1)
jsonCaveatSlice(cavs, isNil) ==
    IF isNil THEN Str(<<110, 117, 108, 108>>) ELSE <<B(91)>> \o jsonCaveats(cavs, 1)

\* m.MarshalJSON(), for a macaroon whose caveats are the nil slice or not
Macaroon_MarshalJSON(m, isNil) ==
    <<B(123)>> \o jsonKey("caveats") \o jsonCaveatSlice(m.caveats, isNil)
    \o <<B(44)>> \o jsonKey("location") \o jsonString(m.location)
    \o <<B(44)>> \o jsonKey("identifier") \o jsonString(m.id)
    \o <<B(44)>> \o jsonKey("signature") \o jsonString(EncodeToString(m.sig))
    \o <<B(125)>>

\* encoding/json: the field a key stands for, found without regard to the
\* case of its letters; "" when the struct has no such field
foldByte(tok) == IF tok[1] = "b" /\ tok[2] >= 65 /\ tok[2] <= 90 THEN B(tok[2] + 32) ELSE tok
foldKey(k) == [j \in DOMAIN k |-> foldByte(k[j])]
fieldFor(fields, k) ==
    IF \E j \in DOMAIN fields : jsonName(fields[j]) = foldKey(k)
    THEN fields[CHOOSE j \in DOMAIN fields : jsonName(fields[j]) = foldKey(k)]
    ELSE ""

isNull(d, i) ==
    CharAt(d, i) = 110 /\ CharAt(d, i + 1) = 117 /\ CharAt(d, i + 2) = 108
    /\ CharAt(d, i + 3) = 108

\* the zero values of caveatJSON and macaroonJSON
zeroCaveatJSON == [location |-> <<>>, cid |-> <<>>, vid |-> <<>>]
zeroMacaroonJSON ==
    [caveats |-> [isNil |-> TRUE, items |-> <<>>], location |-> <<>>, identifier |-> <<>>,
     signature |-> <<>>]

\* encoding/json: a string or null at d[i], decoded into a string field
\* that holds cur; texts of other kinds are not followed
stringValue(d, i, cur) ==
    IF CharAt(d, i) = 34 THEN unquoteFrom(d, i + 1, <<>>)
    ELSE IF isNull(d, i) THEN [s |-> cur, next |-> i + 4, err |-> Nil]
    ELSE [s |-> cur, next |-> i, err |-> Undetermined]

\* encoding/json: the members of the object whose first key starts at d[i],
\* decoded into the struct obj with the given fields; k is the key read,
\* v the value read.  The value of the field "caveats" is an array of
\* caveats, each decoded by Caveat.UnmarshalJSON.
RECURSIVE objectMembers(_, _, _, _)
RECURSIVE caveatsValue(_, _)
objectNext(d, i, obj, fields) ==
    IF CharAt(d, i) = 44 THEN objectMembers(d, i + 1, obj, fields)
    ELSE IF CharAt(d, i) = 125 THEN [v |-> obj, next |-> i + 1, err |-> Nil]
    ELSE [v |-> obj, next |-> i, err |-> SyntaxError("invalid character after object key:value pair")]
objectValue(d, obj, fields, f, v) ==
    IF v.err # Nil THEN [v |-> obj, next |-> v.next, err |-> v.err]
    ELSE objectNext(d, v.next, IF f = "" THEN obj ELSE [obj EXCEPT ![f] = v.s], fields)
objectKey(d, obj, fields, k, f) ==
    IF CharAt(d, k.next) # 58
    THEN [v |-> obj, next |-> k.next, err |-> SyntaxError("invalid character after object key")]
    ELSE objectValue(d, obj, fields, f,
                     IF f = "caveats" THEN caveatsValue(d, k.next + 1)
                     ELSE stringValue(d, k.next + 1, IF f = "" THEN <<>> ELSE obj[f]))
objectKeyRead(d, obj, fields, k) ==
    IF k.err # Nil THEN [v |-> obj, next |-> k.next, err |-> k.err]
    ELSE objectKey(d, obj, fields, k, fieldFor(fields, k.s))
objectMembers(d, i, obj, fields) ==
    IF CharAt(d, i) # 34
    THEN [v |-> obj, next |-> i, err |-> SyntaxError("looking for beginning of object key string")]
    ELSE objectKeyRead(d, obj, fields, unquoteFrom(d, i + 1, <<>>))
object(d, i, obj, fields) ==
    IF CharAt(d, i) # 123 THEN [v |-> obj, next |-> i, err |-> Undetermined]
    ELSE IF CharAt(d, i + 1) = 125 THEN [v |-> obj, next |-> i + 2, err |-> Nil]
    ELSE objectMembers(d, i + 1, obj, fields)

\* cav.UnmarshalJSON(jsonData), for the object at d[i]: the caveat, the
\* place after the object, and the error; o is the caveatJSON read and vid
\* what hex.DecodeString returned
caveatDecoded(o, vid) ==
    IF vid.err # Nil
    THEN [cav |-> Caveat(o.v.location, o.v.cid, vid.bytes), next |-> o.next,
          err |-> <<"cannot decode verfification id", o.v.vid, vid.err>>]
    ELSE [cav |-> Caveat(o.v.location, o.v.cid, vid.bytes), next |-> o.next, err |-> Nil]
caveatRead(o) ==
    IF o.err # Nil
    THEN [cav |-> Caveat(<<>>, <<>>, <<>>), next |-> o.next,
          err |-> <<"cannot decode caveat id", o.v.cid, o.err>>]
    ELSE caveatDecoded(o, DecodeString(o.v.vid))
Caveat_UnmarshalJSON(d, i) == caveatRead(object(d, i, zeroCaveatJSON, caveatJSONFields))

\* encoding/json: the elements of an array of caveats from d[i] on; items
\* are the caveats read, c what Caveat.UnmarshalJSON returned
RECURSIVE caveatItems(_, _, _)
caveatItem(d, items, c) ==
    IF c.err # Nil THEN [s |-> [isNil |-> FALSE, items |-> items], next |-> c.next, err |-> c.err]
    ELSE IF CharAt(d, c.next) = 44 THEN caveatItems(d, c.next + 1, Append(items, c.cav))
    ELSE IF CharAt(d, c.next) = 93
    THEN [s |-> [isNil |-> FALSE, items |-> Append(items, c.cav)], next |-> c.next + 1,
          err |-> Nil]
    ELSE [s |-> [isNil |-> FALSE, items |-> items], next |-> c.next,
          err |-> SyntaxError("invalid character after array element")]
caveatItems(d, i, items) == caveatItem(d, items, Caveat_UnmarshalJSON(d, i))
caveatsValue(d, i) ==
    IF isNull(d, i) THEN [s |-> [isNil |-> TRUE, items |-> <<>>], next |-> i + 4, err |-> Nil]
    ELSE IF CharAt(d, i) # 91
    THEN [s |-> [isNil |-> TRUE, items |-> <<>>], next |-> i, err |-> Undetermined]
    ELSE IF CharAt(d, i + 1) = 93
    THEN [s |-> [isNil |-> FALSE, items |-> <<>>], next |-> i + 2, err |-> Nil]
    ELSE caveatItems(d, i + 1, <<>>)

\* json.Unmarshal(jsonData, &mjson): the struct and the error
jsonRead(d, o) ==
    IF o.err # Nil THEN [v |-> zeroMacaroonJSON, err |-> o.err]
    ELSE IF o.next # Len(d) + 1
    THEN [v |-> zeroMacaroonJSON, err |-> SyntaxError("invalid character after top-level value")]
    ELSE [v |-> o.v, err |-> Nil]
jsonUnmarshal(d) == jsonRead(d, object(d, 1, zeroMacaroonJSON, macaroonJSONFields))

\* m.UnmarshalJSON(jsonData): the receiver afterwards, whether its caveats
\* are the nil slice, and the error; j is what json.Unmarshal returned and
\* sig what hex.DecodeString returned
macaroonDecoded(m, isNil, j, sig) ==
    IF sig.err # Nil
    THEN [m |-> [m EXCEPT !.location = j.v.location, !.id = j.v.identifier,
                          !.sig = sig.bytes],
          isNil |-> isNil,
          err |-> <<"cannot decode macaroon signature", sig.bytes, sig.err>>]
    ELSE [m |-> [location |-> j.v.location, id |-> j.v.identifier,
                 caveats |-> j.v.caveats.items, sig |-> sig.bytes],
          isNil |-> j.v.caveats.isNil, err |-> Nil]
macaroonRead(m, isNil, j) ==
    IF j.err # Nil
    THEN [m |-> m, isNil |-> isNil, err |-> <<"cannot unmarshal json data", j.err>>]
    ELSE macaroonDecoded(m, isNil, j, DecodeString(j.v.signature))
Macaroon_UnmarshalJSON(m, isNil, d) == macaroonRead(m, isNil, jsonUnmarshal(d))

----------------------------------------------------------------------------
(* A macaroon is minted and given caveats, marshalled to JSON, and the text  *)
(* is unmarshalled into a new macaroon; a text can also come from outside,   *)
(* and the macaroon read from it is marshalled in turn.  Ids and locations   *)
(* are strings with characters that JSON escapes, with characters of more    *)
(* than one byte, and with bytes that are no valid UTF-8.                    *)
JSONStrings ==
    {Str(<<34, 92>>), Str(<<60, 10>>), Str(<<195, 169>>), Str(<<226, 128, 168>>),
     Str(<<255>>)}
JSONLocations == {LocA, Str(<<237, 160, 128>>)}
JSONCaveatIds == {Cond1, Str(<<9, 34>>), Str(<<192, 128>>)}
JSONCaveatLocations == {<<>>, Str(<<47, 38>>), Str(<<99, 195>>)}

\* the document of TestUnmarshalJSON, shortened, with an upper-case digit
JSONDoc1 ==
    Str(<<
        123, 34, 99, 97, 118, 101, 97, 116, 115, 34, 58, 91, 123, 34, 99,
        105, 100, 34, 58, 34, 97, 32, 61, 32, 49, 34, 125, 44, 123, 34, 99,
        105, 100, 34, 58, 34, 116, 32, 60, 32, 50, 34, 125, 93, 44, 34, 108,
        111, 99, 97, 116, 105, 111, 110, 34, 58, 34, 104, 58, 92, 92, 47, 92,
        92, 47, 98, 34, 44, 34, 105, 100, 101, 110, 116, 105, 102, 105, 101,
        114, 34, 58, 34, 119, 101, 34, 44, 34, 115, 105, 103, 110, 97, 116,
        117, 114, 101, 34, 58, 34, 56, 65, 50, 101, 34, 125>>)
\* a third-party caveat, an escape, a key in upper case and a key that is no field
JSONDoc2 ==
    Str(<<
        123, 34, 76, 111, 99, 97, 116, 105, 111, 110, 34, 58, 34, 92, 117,
        48, 48, 101, 57, 34, 44, 34, 120, 34, 58, 110, 117, 108, 108, 44, 34,
        99, 97, 118, 101, 97, 116, 115, 34, 58, 91, 123, 34, 108, 111, 99,
        97, 116, 105, 111, 110, 34, 58, 34, 97, 34, 44, 34, 99, 105, 100, 34,
        58, 34, 120, 34, 44, 34, 118, 105, 100, 34, 58, 34, 48, 48, 102, 102,
        34, 125, 93, 44, 34, 105, 100, 101, 110, 116, 105, 102, 105, 101,
        114, 34, 58, 34, 114, 34, 44, 34, 115, 105, 103, 110, 97, 116, 117,
        114, 101, 34, 58, 34, 54, 100, 34, 125>>)
\* no caveats, in the two forms
JSONDoc3 ==
    Str(<<
        123, 34, 99, 97, 118, 101, 97, 116, 115, 34, 58, 91, 93, 44, 34, 108,
        111, 99, 97, 116, 105, 111, 110, 34, 58, 34, 34, 44, 34, 105, 100,
        101, 110, 116, 105, 102, 105, 101, 114, 34, 58, 34, 114, 34, 44, 34,
        115, 105, 103, 110, 97, 116, 117, 114, 101, 34, 58, 34, 34, 125>>)
JSONDoc4 ==
    Str(<<
        123, 34, 105, 100, 101, 110, 116, 105, 102, 105, 101, 114, 34, 58,
        34, 114, 34, 125>>)
\* a signature that is not hexadecimal, and one of odd length
JSONDoc5 ==
    Str(<<
        123, 34, 108, 111, 99, 97, 116, 105, 111, 110, 34, 58, 34, 97, 34,
        44, 34, 105, 100, 101, 110, 116, 105, 102, 105, 101, 114, 34, 58, 34,
        114, 34, 44, 34, 115, 105, 103, 110, 97, 116, 117, 114, 101, 34, 58,
        34, 56, 103, 34, 125>>)
JSONDoc6 ==
    Str(<<
        123, 34, 108, 111, 99, 97, 116, 105, 111, 110, 34, 58, 34, 97, 34,
        44, 34, 105, 100, 101, 110, 116, 105, 102, 105, 101, 114, 34, 58, 34,
        114, 34, 44, 34, 115, 105, 103, 110, 97, 116, 117, 114, 101, 34, 58,
        34, 56, 97, 50, 34, 125>>)
\* a verification id that is not hexadecimal
JSONDoc7 ==
    Str(<<
        123, 34, 99, 97, 118, 101, 97, 116, 115, 34, 58, 91, 123, 34, 99,
        105, 100, 34, 58, 34, 120, 34, 44, 34, 118, 105, 100, 34, 58, 34,
        122, 122, 34, 125, 93, 44, 34, 105, 100, 101, 110, 116, 105, 102,
        105, 101, 114, 34, 58, 34, 114, 34, 44, 34, 115, 105, 103, 110, 97,
        116, 117, 114, 101, 34, 58, 34, 54, 100, 34, 125>>)
\* texts that are no JSON object of this form
JSONDoc8 ==
    Str(<<
        123, 34, 105, 100, 101, 110, 116, 105, 102, 105, 101, 114, 34, 58,
        34, 114, 34>>)
JSONDoc9 ==
    Str(<<
        123, 34, 105, 100, 101, 110, 116, 105, 102, 105, 101, 114, 34, 58,
        34, 114, 92, 113, 34, 125>>)
JSONDoc10 ==
    Str(<<
        123, 34, 105, 100, 101, 110, 116, 105, 102, 105, 101, 114, 34, 58,
        34, 114, 34, 125, 125>>)
JSONDocs ==
    {JSONDoc1, JSONDoc2, JSONDoc3, JSONDoc4, JSONDoc5,
     JSONDoc6, JSONDoc7, JSONDoc8, JSONDoc9, JSONDoc10}

\* data, err := m.MarshalJSON() for a macaroon m
Marshalled(m, isNil) ==
    /\ buf' = Macaroon_MarshalJSON(m, isNil)
    /\ result' = [op |-> "MarshalJSON", m |-> m, isNil |-> isNil]
DoMarshalJSON(i) ==
    /\ Marshalled(macs[i], macs[i].caveats = <<>>)
    /\ UNCHANGED <<macs, rootKeys, minted, boundTo, heap, store>>

\* a text arrives
DoReceiveJSON(doc) ==
    /\ buf' = doc
    /\ result' = [op |-> "received"]
    /\ UNCHANGED <<macs, rootKeys, minted, boundTo, heap, store>>

\* var m1 Macaroon; err := json.Unmarshal(buf, &m1)
UnmarshalledJSON(r) ==
    result' = [op |-> "UnmarshalJSON", from |-> result.op,
               m |-> IF result.op = "MarshalJSON" THEN result.m ELSE emptyMacaroon,
               um |-> r.m, isNil |-> r.isNil, err |-> r.err]
DoUnmarshalJSON ==
    /\ "op" \in DOMAIN result
    /\ result.op \in {"MarshalJSON", "received"}
    /\ UnmarshalledJSON(Macaroon_UnmarshalJSON(emptyMacaroon, TRUE, buf))
    /\ UNCHANGED <<macs, rootKeys, minted, boundTo, heap, buf, store>>

\* the macaroon that was read is marshalled: data, err := original.MarshalJSON()
DoMarshalJSONAgain ==
    /\ "op" \in DOMAIN result
    /\ result.op = "UnmarshalJSON"
    /\ result.from = "received"
    /\ result.err = Nil
    /\ Marshalled(result.um, result.isNil)
    /\ UNCHANGED <<macs, rootKeys, minted, boundTo, heap, store>>

NextJSON ==
    \/ \E id \in JSONStrings, loc \in JSONLocations : macs = <<>> /\ DoNew(KeyA, id, loc)
    \/ \E i \in DOMAIN macs, id \in JSONCaveatIds : DoAddFirstPartyCaveat(i, id)
    \/ \E i \in DOMAIN macs, loc \in JSONCaveatLocations, n \in Nonces :
          DoAddThirdPartyCaveat(i, KeyA, IdX, loc, n)
    \/ \E i \in DOMAIN macs : DoMarshalJSON(i)
    \/ \E doc \in JSONDocs : DoReceiveJSON(doc)
    \/ DoUnmarshalJSON
    \/ DoMarshalJSONAgain

SpecJSON == Init /\ [][NextJSON]_vars

----------------------------------------------------------------------------
(* C17: for every macaroon whose id, location, caveat ids and caveat         *)
(* locations are valid UTF-8, unmarshalling the output of MarshalJSON        *)
(* succeeds and gives a macaroon with the same location, id and signature    *)
(* and the same caveats: id, verification id and location of each, in order. *)
UnmarshalledOwnJSON ==
    "op" \in DOMAIN result /\ result.op = "UnmarshalJSON" /\ result.from = "MarshalJSON"
\* the id, the location and the caveat ids of the macaroon are valid UTF-8
ValidIds(m) ==
    /\ ValidString(m.id)
    /\ ValidString(m.location)
    /\ \A k \in DOMAIN m.caveats : ValidString(m.caveats[k].caveatId)
ValidCaveatLocations(m) == \A k \in DOMAIN m.caveats : ValidString(m.caveats[k].location)
SameMacaroon ==
    /\ result.err = Nil
    /\ result.um.location = result.m.location
    /\ result.um.id = result.m.id
    /\ result.um.sig = result.m.sig
    /\ result.um.caveats = result.m.caveats
Thm_C17 ==
    (UnmarshalledOwnJSON /\ ValidIds(result.m) /\ ValidCaveatLocations(result.m))
        => SameMacaroon
\* a macaroon with an id that JSON escapes, a third-party caveat with a
\* location and a first-party caveat has gone through MarshalJSON and
\* UnmarshalJSON
Wit_C17 ==
    /\ UnmarshalledOwnJSON
    /\ ValidIds(result.m) /\ ValidCaveatLocations(result.m)
    /\ result.m.id = Str(<<34, 92>>)
    /\ Len(result.m.caveats) = 2
    /\ IsThirdParty(result.m.caveats[1]) /\ result.m.caveats[1].location # <<>>
    /\ ~IsThirdParty(result.m.caveats[2])
\* C17 as stated, with nothing asked of the caveats' locations
Cex_C17 == (UnmarshalledOwnJSON /\ ValidIds(result.m)) => SameMacaroon

----------------------------------------------------------------------------
(* A macaroon is built from ids and locations of which some have             *)
(* maxPacketLen random bytes, as toobig in TestMacaroonFieldsTooBig, and is  *)
(* marshalled.  New, AddFirstPartyCaveat and AddThirdPartyCaveat of          *)
(* macaroon.go look at the length of no argument.                            *)
TooBig(n) == <<Rnd(n, maxPacketLen)>>
LimitIds == {IdR, TooBig(5)}
LimitLocations == {LocA, TooBig(6)}
LimitCaveatIds == {IdX, TooBig(7)}
LimitCaveatLocations == {LocA, TooBig(8)}

\* data, err := macs[i].MarshalBinary()
MarshalledV1(i, r) ==
    /\ buf' = r.data
    /\ result' = [op |-> "MarshalBinaryV1", of |-> i, err |-> r.err]
DoMarshalBinaryV1(i) ==
    /\ MarshalledV1(i, MarshalBinaryV1(macs[i]))
    /\ UNCHANGED <<macs, rootKeys, minted, boundTo, heap, store>>

NextLimit ==
    \/ \E id \in LimitIds, loc \in LimitLocations : macs = <<>> /\ DoNew(KeyA, id, loc)
    \/ \E i \in DOMAIN macs, id \in LimitCaveatIds : DoAddFirstPartyCaveat(i, id)
    \/ \E i \in DOMAIN macs, id \in LimitCaveatIds, loc \in LimitCaveatLocations,
          n \in Nonces :
          DoAddThirdPartyCaveat(i, KeyA, id, loc, n)
    \/ \E i \in DOMAIN macs : DoMarshalBinaryV1(i)

SpecLimit == Init /\ [][NextLimit]_vars

----------------------------------------------------------------------------
(* C18: New fails when the id or the location is too long for one packet of  *)
(* 65535 bytes, header included, and so does the adding of a caveat whose id *)
(* or location is too long, which leaves the caveats and the signature as    *)
(* they were: every field of every macaroon that exists fits one packet and  *)
(* MarshalBinary of the macaroon succeeds.                                   *)
Fits(field, data) == packetSize(field, data) <= maxPacketLen
FieldsFit(m) ==
    /\ Fits(fieldNameIdentifier, m.id)
    /\ Fits(fieldNameLocation, m.location)
    /\ \A k \in DOMAIN m.caveats :
          /\ Fits(fieldNameCaveatId, m.caveats[k].caveatId)
          /\ Fits(fieldNameCaveatLocation, m.caveats[k].location)
Cex_C18 ==
    /\ \A i \in DOMAIN macs : FieldsFit(macs[i])
    /\ ("op" \in DOMAIN result /\ result.op = "MarshalBinaryV1") => result.err = Nil

----------------------------------------------------------------------------
(* An encoding is put together packet by packet: location and identifier,    *)
(* then cid, vid and cl packets in any order, then the signature; it is      *)
(* given to UnmarshalBinary of marshal-v1.go.                                *)
MaxFields == 4
OrderFields == {"cid", "vid", "cl"}
orderFieldName(f) ==
    CASE f = "cid" -> fieldNameCaveatId
      [] f = "vid" -> fieldNameVerificationId
      [] f = "cl" -> fieldNameCaveatLocation
\* the data of the k-th packet of a kind
orderData(f, k) ==
    CASE f = "cid" -> <<B(48 + k)>>
      [] f = "vid" -> <<Rnd(20 + k, 8)>>
      [] f = "cl" -> <<B(96 + k)>>
OrderSignature == <<Rnd(30, hashLen)>>
OrderHeader ==
    appendPacket(appendPacket(<<>>, fieldNameLocation, LocA).buf, fieldNameIdentifier, IdR).buf

\* the encoding starts
DoStartEncoding ==
    /\ result = NoResult
    /\ buf' = OrderHeader
    /\ result' = [op |-> "encoding", fields |-> <<>>]
    /\ UNCHANGED <<macs, rootKeys, minted, boundTo, heap, store>>

\* one more caveat packet
DoAppendField(f) ==
    /\ "op" \in DOMAIN result
    /\ result.op = "encoding"
    /\ Len(result.fields) < MaxFields
    /\ buf' = appendPacket(buf, orderFieldName(f), orderData(f, Len(result.fields) + 1)).buf
    /\ result' = [result EXCEPT !.fields = Append(@, f)]
    /\ UNCHANGED <<macs, rootKeys, minted, boundTo, heap, store>>

\* the signature packet ends the encoding; var m Macaroon;
\* err := m.UnmarshalBinary(buf)
Decoded(fields, data, r) ==
    /\ buf' = data
    /\ result' = [op |-> "UnmarshalBinaryV1", fields |-> fields, m |-> r.m, err |-> r.err]
DoDecodeEncoding ==
    /\ "op" \in DOMAIN result
    /\ result.op = "encoding"
    /\ Decoded(result.fields, appendPacket(buf, fieldNameSignature, OrderSignature).buf,
               UnmarshalBinaryV1(zeroMacaroon,
                   appendPacket(buf, fieldNameSignature, OrderSignature).buf))
    /\ UNCHANGED <<macs, rootKeys, minted, boundTo, heap, store>>

\* the encoding of a macaroon without caveats comes first and the signature
\* packet ends the encoding; var s Slice; err := s.UnmarshalBinary(data)
DecodedSlice(fields, data, r) ==
    /\ buf' = data
    /\ result' = [op |-> "Slice.UnmarshalBinaryV1", fields |-> fields, s |-> r.s,
                  err |-> r.err]
DoDecodeSliceEncoding ==
    /\ "op" \in DOMAIN result
    /\ result.op = "encoding"
    /\ DecodedSlice(result.fields,
                    appendPacket(OrderHeader, fieldNameSignature, OrderSignature).buf
                    \o appendPacket(buf, fieldNameSignature, OrderSignature).buf,
                    SliceUnmarshalBinary(
                        appendPacket(OrderHeader, fieldNameSignature, OrderSignature).buf
                        \o appendPacket(buf, fieldNameSignature, OrderSignature).buf))
    /\ UNCHANGED <<macs, rootKeys, minted, boundTo, heap, store>>

NextOrder ==
    \/ DoStartEncoding
    \/ \E f \in OrderFields : DoAppendField(f)
    \/ DoDecodeEncoding
    \/ DoDecodeSliceEncoding

SpecOrder == Init /\ [][NextOrder]_vars

----------------------------------------------------------------------------
(* C21: UnmarshalBinary returns an error for every encoding in which the     *)
(* packets of a caveat are not in the order cid, vid, cl: a vid or cl packet *)
(* before the first cid, a cl before the vid of its caveat; no such packet   *)
(* is dropped or attached to another caveat.                                 *)
\* packet k is where the format has it: a cid anywhere, a vid right after a
\* cid, a cl right after a cid or after the vid that follows a cid
InPlace(fields, k) ==
    \/ fields[k] = "cid"
    \/ fields[k] = "vid" /\ k > 1 /\ fields[k - 1] = "cid"
    \/ fields[k] = "cl" /\ k > 1 /\ fields[k - 1] = "cid"
    \/ fields[k] = "cl" /\ k > 2 /\ fields[k - 1] = "vid" /\ fields[k - 2] = "cid"
InOrder(fields) == \A k \in DOMAIN fields : InPlace(fields, k)
DecodedEncoding == "op" \in DOMAIN result /\ result.op = "UnmarshalBinaryV1"
Cex_C21 == (DecodedEncoding /\ ~InOrder(result.fields)) => result.err # Nil

----------------------------------------------------------------------------
(* C22: when UnmarshalBinary returns an error, the receiver holds no         *)
(* location, id, caveat or signature of the rejected input: it is as it was  *)
(* before the call; when Slice.UnmarshalBinary returns an error, the target  *)
(* slice holds none of the macaroons decoded before the failure.             *)
DecodedSliceEncoding == "op" \in DOMAIN result /\ result.op = "Slice.UnmarshalBinaryV1"
Cex_C22 ==
    /\ (DecodedEncoding /\ result.err # Nil) => result.m = zeroMacaroon
    /\ (DecodedSliceEncoding /\ result.err # Nil) => result.s = <<>>

(***************************************************************************)
(* The in-memory Storage.  Put, Get and Del have VALUE receivers             *)
(* (func (s memStorage) ...): every call works on a copy s of the struct,    *)
(* whose field mu is a copy of the Mutex and whose field values is the       *)
(* same map.  A call is followed in its steps: the receiver is copied, the   *)
(* copy's mu is locked, the map is read or written, the deferred Unlock      *)
(* runs and the call returns.  Map accesses of two goroutines with nothing   *)
(* ordering them are a data race: the outcome is then any of what the        *)
(* runtime can do (stop with "fatal error: concurrent map ...", lose the     *)
(* access, or perform it).                                                   *)
(***************************************************************************)
ErrNotFound == <<"item not found">>
StoreKeys == {Str(<<48>>), Str(<<49>>)}
\* the calls each goroutine of TestConcurrentMemStorage makes, in order
storageOps == <<"Put", "Get", "Del">>
MaxCalls == Len(storageOps)

\* the map operations: s.values[location], s.values[location] = item, delete
mapHas(values, location) == \E e \in values : e[1] = location
mapIndex(values, location) == (CHOOSE e \in values : e[1] = location)[2]
mapDelete(values, location) == {e \in values : e[1] # location}
mapAssign(values, location, item) == mapDelete(values, location) \cup {<<location, item>>}

\* what the body of each method does between Lock and Unlock
memStorage_Put(values, location, item) ==
    [values |-> mapAssign(values, location, item), ret |-> <<Nil>>]
memStorage_Get(values, location) ==
    IF ~mapHas(values, location)
    THEN [values |-> values, ret |-> <<<<>>, ErrNotFound>>]
    ELSE [values |-> values, ret |-> <<mapIndex(values, location), Nil>>]
memStorage_Del(values, location) ==
    [values |-> mapDelete(values, location), ret |-> <<Nil>>]
memStorage_body(c, values) ==
    IF c.op = "Put" THEN memStorage_Put(values, c.location, c.item)
    ELSE IF c.op = "Get" THEN memStorage_Get(values, c.location)
    ELSE memStorage_Del(values, c.location)

\* goroutine g is between s.mu.Lock() and s.mu.Unlock()
Locked(g) == store.calls[g].pc = "locked"
\* the access of g to the map conflicts with one of another goroutine that
\* is between its own Lock and Unlock: one of the two writes the map
writesMap(op) == op \in {"Put", "Del"}
Races(g) ==
    \E h \in Goroutines :
        /\ h # g
        /\ store.calls[h].pc \in {"locked", "accessed"}
        /\ (writesMap(store.calls[g].op) \/ writesMap(store.calls[h].op))

\* g calls its next method: the receiver *s is copied, the Mutex with it
DoStorageCall(g, location) ==
    /\ ~store.fatal
    /\ store.calls[g].pc = "idle"
    /\ store.calls[g].n < MaxCalls
    /\ store' = [store EXCEPT !.calls[g] =
                    [pc |-> "called", n |-> @.n, op |-> storageOps[@.n + 1],
                     location |-> location, item |-> Str(<<48 + g>>),
                     mu |-> store.mu, ret |-> <<>>]]
    /\ UNCHANGED <<macs, rootKeys, minted, boundTo, result, heap, buf>>

\* s.mu.Lock(): the Mutex locked is the one of the copy
DoStorageLock(g) ==
    /\ ~store.fatal
    /\ store.calls[g].pc = "called"
    /\ store.calls[g].mu = "unlocked"
    /\ store' = [store EXCEPT !.calls[g].mu = "locked", !.calls[g].pc = "locked"]
    /\ UNCHANGED <<macs, rootKeys, minted, boundTo, result, heap, buf>>

\* the access to s.values; outcome chooses what a racing access does
DoStorageAccess(g, outcome) ==
    /\ ~store.fatal
    /\ Locked(g)
    /\ IF Races(g) THEN outcome \in {"done", "lost", "fatal"} ELSE outcome = "done"
    /\ store' =
         IF outcome = "fatal" THEN [store EXCEPT !.fatal = TRUE]
         ELSE IF outcome = "lost"
         THEN [store EXCEPT !.calls[g].pc = "accessed",
                            !.calls[g].ret = memStorage_body(store.calls[g], {}).ret]
         ELSE [store EXCEPT !.values = memStorage_body(store.calls[g], store.values).values,
                            !.calls[g].pc = "accessed",
                            !.calls[g].ret = memStorage_body(store.calls[g], store.values).ret]
    /\ UNCHANGED <<macs, rootKeys, minted, boundTo, result, heap, buf>>

\* the deferred s.mu.Unlock() and the return
DoStorageReturn(g) ==
    /\ ~store.fatal
    /\ store.calls[g].pc = "accessed"
    /\ store' = [store EXCEPT !.calls[g].mu = "unlocked", !.calls[g].pc = "idle",
                              !.calls[g].n = @ + 1]
    /\ UNCHANGED <<macs, rootKeys, minted, boundTo, result, heap, buf>>

NextStorage ==
    \/ \E g \in Goroutines, location \in StoreKeys : DoStorageCall(g, location)
    \/ \E g \in Goroutines : DoStorageLock(g)
    \/ \E g \in Goroutines, outcome \in {"done", "lost", "fatal"} : DoStorageAccess(g, outcome)
    \/ \E g \in Goroutines : DoStorageReturn(g)

SpecStorage == Init /\ [][NextStorage]_vars

\* C23: Put, Get and Del on one store are mutually exclusive: no two
\* goroutines are between Lock and Unlock, where the map is read or written,
\* at the same time.
Cex_C23 ==
    \A g, h \in Goroutines :
        (g # h /\ store.calls[g].pc \in {"locked", "accessed"})
            => store.calls[h].pc \notin {"locked", "accessed"}

(***************************************************************************)
(* crypto.go: the nonce drawn from a source of randomness.  A reader r is    *)
(* what one call r.Read(p) does: it fills the first r.n bytes of p and       *)
(* returns (r.n, r.err); io.Reader allows r.n < len(p) with a nil error.     *)
(***************************************************************************)
ErrFail == <<"fail">>
ErrRandom(err) == <<"cannot generate random bytes", err>>
\* rand.Reader, the ErrorReader of the tests, a reader that runs dry after
\* some bytes without an error or with one, and one that gives no byte
FullReader == [id |-> 9, n |-> nonceLen, err |-> Nil]
ErrorReader == [id |-> 9, n |-> 0, err |-> ErrFail]
Readers ==
    {FullReader, ErrorReader,
     [id |-> 9, n |-> 10, err |-> Nil], [id |-> 9, n |-> 0, err |-> Nil],
     [id |-> 9, n |-> 10, err |-> ErrFail]}

\* var nonce [nonceLen]byte; _, err := r.Read(nonce[:])
readInto(r) ==
    IF r.n = 0 THEN <<Zeros(nonceLen)>>
    ELSE IF r.n = nonceLen THEN <<Rnd(r.id, nonceLen)>>
    ELSE <<Rnd(r.id, r.n), Zeros(nonceLen - r.n)>>
newNonce(r) ==
    IF r.err # Nil
    THEN [nonce |-> <<>>, err |-> ErrRandom(r.err)]
    ELSE [nonce |-> readInto(r), err |-> Nil]
encryptSealed(key, text, n) ==
    IF n.err # Nil THEN [out |-> <<>>, err |-> n.err]
    ELSE [out |-> encrypt(key, text, n.nonce), err |-> Nil]
encryptWithRand(key, text, r) == encryptSealed(key, text, newNonce(r))

\* m.addThirdPartyCaveatWithRand(rootKey, caveatId, loc, r)
addThirdPartyCaveatSealed(m, caveatId, loc, e) ==
    IF e.err # Nil THEN [m |-> m, err |-> e.err]
    ELSE [m |-> addCaveat(m, caveatId, e.out, loc), err |-> Nil]
addThirdPartyCaveatWithRand(m, rootKey, caveatId, loc, r) ==
    addThirdPartyCaveatSealed(m, caveatId, loc, encryptWithRand(m.sig, rootKey, r))

DoAddThirdPartyCaveatWithRand(i, rootKey, caveatId, loc, r) ==
    /\ CountCaveats(macs) < MaxCaveats
    /\ macs' = [macs EXCEPT ![i] = addThirdPartyCaveatWithRand(@, rootKey, caveatId, loc, r).m]
    /\ minted' = [minted EXCEPT ![i] =
                     IF macs'[i] = macs[i] THEN @
                     ELSE Append(@, [caveat |-> macs'[i].caveats[Len(macs'[i].caveats)],
                                     rootKey |-> rootKey])]
    /\ result' = [op |-> "AddThirdPartyCaveatWithRand", i |-> i, r |-> r, before |-> macs[i],
                  err |-> addThirdPartyCaveatWithRand(macs[i], rootKey, caveatId, loc, r).err]
    /\ UNCHANGED <<rootKeys, boundTo, heap, buf, store>>

NextRand ==
    \/ \E p \in (IF macs = <<>> THEN {<<KeyA, IdR>>} ELSE ThirdParties):
          DoNew(p[1], p[2], LocA)
    \/ \E i \in DOMAIN macs, c \in Conditions: DoAddFirstPartyCaveat(i, c)
    \/ \E i \in DOMAIN macs, p \in ThirdParties, r \in Readers:
          DoAddThirdPartyCaveatWithRand(i, p[1], p[2], LocA, r)

SpecRand == Init /\ [][NextRand]_vars

AddedWithRand == "op" \in DOMAIN result /\ result.op = "AddThirdPartyCaveatWithRand"

\* C24: whenever the source of randomness returns an error or yields fewer
\* than the nonceLen bytes of the nonce, AddThirdPartyCaveat fails with the
\* randomness error, and no caveat is appended and the signature is as before.
Cex_C24 ==
    (AddedWithRand /\ (result.r.err # Nil \/ result.r.n < nonceLen))
        => /\ result.err = ErrRandom(result.r.err)
           /\ macs[result.i] = result.before

(***************************************************************************)
(* The order in which Verify meets failures                                 *)
(***************************************************************************)
\* the first macaroon of discharges that has the id of cav; 0 when none has
firstDischarge(cav, discharges) ==
    IF \E j \in DOMAIN discharges : discharges[j].id = cav.caveatId
    THEN CHOOSE j \in DOMAIN discharges :
            /\ discharges[j].id = cav.caveatId
            /\ \A k \in 1..(j - 1) : discharges[k].id # cav.caveatId
    ELSE 0

\* what verifying the first discharge of the primary's first caveat returns,
\* with the arguments verify hands to it
firstDischargeErr(m, rootKey, check, discharges) ==
    verify(discharges[firstDischarge(m.caveats[1], discharges)], m.sig,
           decrypt(keyedHash(rootKey, m.id), m.caveats[1].verificationId).text,
           check, discharges, 1).err

\* the primary starts with a third-party caveat that decrypts and has a
\* discharge, and the first discharge with its id fails
FirstDischargeFails ==
    /\ Verified
    /\ macs[1].caveats # <<>>
    /\ IsThirdParty(macs[1].caveats[1])
    /\ decrypt(keyedHash(result.rootKey, macs[1].id), macs[1].caveats[1].verificationId).ok
    /\ firstDischarge(macs[1].caveats[1], Tail(macs)) # 0
    /\ firstDischargeErr(macs[1], result.rootKey, result.check, Tail(macs)) \notin {Nil, Overflow}

\* C25: Verify returns the first failure it meets: when the first discharge
\* of the earliest failing caveat is rejected, the error of Verify is the
\* error of that discharge, and not the one of a later discharge or caveat.
Cex_C25 ==
    FirstDischargeFails =>
        result.err = firstDischargeErr(macs[1], result.rootKey, result.check, Tail(macs))

(***************************************************************************)
(* The signature a nested discharge is bound to                             *)
(***************************************************************************)
\* the discharges Verify comes to through a caveat of another discharge
Nested ==
    {j \in Reached \ {1} :
        \A o \in ThirdPartyAt : j \in DischargesFor(o) => o[1] # 1}
\* the discharge whose caveat j discharges
ParentsOf(j) == {o[1] : o \in {q \in ThirdPartyAt : j \in DischargesFor(q)}}
BoundToParent(j) ==
    /\ boundTo[j] # <<>>
    /\ ~BoundToPrimary(j)
    /\ \E i \in ParentsOf(j) : boundTo[j] = macs[i].sig

\* C26: the binding signature is the primary's at every depth.  In a bundle
\* otherwise in order that has a discharge of a discharge, Verify succeeds
\* when every discharge on its walk is bound to the signature of the primary,
\* and fails with a signature mismatch when a nested discharge is bound to
\* another signature, such as the one of the discharge that names it.
Thm_C26 ==
    (Verified /\ WithMintingKey /\ InOrderButBinding /\ Nested # {})
        => /\ (\A j \in Reached \ {1} : BoundToPrimary(j)) => Succeeded
           /\ (\E j \in Nested : ~BoundToPrimary(j)) => result.err = ErrSignature

\* the nested discharge is bound to the signature of its parent, which is
\* itself bound to the primary
Wit_C26 ==
    /\ Verified /\ WithMintingKey /\ InOrderButBinding
    /\ \E j \in Nested : BoundToParent(j)
    /\ \A j \in Reached \ ({1} \cup Nested) : BoundToPrimary(j)
    /\ result.err = ErrSignature

(***************************************************************************)
(* Caveats added to a discharge after Bind.  The primary is complete before  *)
(* any Bind; a discharge is bound once to the primary, and takes caveats     *)
(* before and after that.                                                    *)
(***************************************************************************)
NextAttenuate ==
    \/ \E p \in (IF macs = <<>> THEN {<<KeyA, IdR>>} ELSE ThirdParties):
          DoNew(p[1], p[2], LocA)
    \/ \E i \in DOMAIN macs, c \in Conditions:
          (i = 1 => NoneBound) /\ DoAddFirstPartyCaveat(i, c)
    \/ \E i \in DOMAIN macs, p \in ThirdParties, n \in Nonces:
          (i = 1 => NoneBound) /\ DoAddThirdPartyCaveat(i, p[1], p[2], LocA, n)
    \/ \E i \in DOMAIN macs \ {1}: boundTo[i] = <<>> /\ DoBind(i, 1)
    \/ \E c \in {AcceptAll, Accepting({Cond1})}: DoVerify(rootKeys[1], c)

SpecAttenuate == Init /\ [][NextAttenuate]_vars

\* Bind was the last operation on discharge j: its signature is the binding
\* of the signature of all its caveats
BoundLast(j) ==
    macs[j].sig =
        bindForRequest(boundTo[j], ChainSig(keyedHash(rootKeys[j], macs[j].id), macs[j].caveats))
\* the discharges on the walk of Verify that took a caveat after Bind
AttenuatedAfterBind == {j \in Reached \ {1} : ~BoundLast(j)}

\* each discharge on the walk was bound to the primary, and all is in order
\* otherwise
InOrderAndBound ==
    /\ \A i \in DOMAIN macs : Untampered(i)
    /\ DistinctIds
    /\ NoneMissing
    /\ \A j \in DischargeIdx : RightKey(j)
    /\ \A j \in Reached \ {1} : BoundToPrimary(j)

DecryptFailed == \E k \in 0..MaxCaveats : result.err = ErrDecrypt(k, "decryption failure")

\* C27, as stated: a caveat added to a discharge after Bind makes Verify fail
\* with a signature mismatch, whatever check answers.
Cex_C27 ==
    (Verified /\ WithMintingKey /\ InOrderAndBound /\ AttenuatedAfterBind # {})
        => result.err = ErrSignature

\* C27, amended: a caveat added to a discharge after Bind makes Verify fail
\* whatever check answers: with a signature mismatch or, for a third-party
\* caveat, a decryption failure when check accepts every condition, and
\* otherwise possibly with the error of check; with every caveat added
\* before Bind, Verify succeeds when check accepts the conditions.
Thm_C27 ==
    (Verified /\ WithMintingKey /\ InOrderAndBound)
        => /\ AttenuatedAfterBind # {} => ~Succeeded
           /\ (AttenuatedAfterBind # {} /\ ChecksAccepted)
                 => (result.err = ErrSignature \/ DecryptFailed)
           /\ (AttenuatedAfterBind = {} /\ ChecksAccepted) => Succeeded

\* a first-party caveat that check accepts was added after Bind
Wit_C27 ==
    /\ Verified /\ WithMintingKey /\ InOrderAndBound
    /\ AttenuatedAfterBind # {}
    /\ ~result.check.all /\ ChecksAccepted
    /\ \A o \in ThirdPartyAt : o[1] = 1
    /\ result.err = ErrSignature

(***************************************************************************)
(* What Verify writes.  The one statement of verify that writes into an      *)
(* existing array is caveatSig = sig.Sum(caveatSig[:0]), which puts the new  *)
(* sum into the array of caveatSig; that array is the one keyedHash          *)
(* allocated with h.Sum(nil) at the start of the call.  ms is the primary    *)
(* followed by the discharges; a write is <<array, sum>>, where array i is   *)
(* the array of ms[i].sig and Local an array that no macaroon holds.         *)
(***************************************************************************)
Local == 0
\* mutant: caveatSig starts out as a slice of the signature of the macaroon
caveatSigArrayOfSig(ms, i) == i
\* the array of caveatSig in the verify call on ms[i]
caveatSigArray(ms, i) == Local

RECURSIVE verifyWrites(_, _, _, _, _)
RECURSIVE caveatWrites(_, _, _, _, _, _)
RECURSIVE dischargeWrites(_, _, _, _, _, _)

\* the writes of the loop over the discharges, from discharge j on
dischargeWrites(ms, cav, cavKey, check, depth, j) ==
    IF j > Len(ms) - 1 THEN <<>>
    ELSE IF ms[j + 1].id # cav.caveatId
    THEN dischargeWrites(ms, cav, cavKey, check, depth, j + 1)
    ELSE verifyWrites(ms, j + 1, cavKey, check, depth + 1)
         \o (IF verify(ms[j + 1], ms[1].sig, cavKey, check, Tail(ms), depth + 1).err
                   \in {Nil, Overflow}
             THEN <<>>
             ELSE dischargeWrites(ms, cav, cavKey, check, depth, j + 1))

\* the caveat passes: the loop goes on to the sum
caveatPasses(ms, cav, caveatSig, check, depth) ==
    IF IsThirdParty(cav)
    THEN /\ decrypt(caveatSig, cav.verificationId).ok
         /\ verifyDischarges(cav, decrypt(caveatSig, cav.verificationId).text, ms[1].sig,
                             check, Tail(ms), depth, 1, FALSE, Nil).found
         /\ verifyDischarges(cav, decrypt(caveatSig, cav.verificationId).text, ms[1].sig,
                             check, Tail(ms), depth, 1, FALSE, Nil).err = Nil
    ELSE Check(check, cav.caveatId) = Nil

\* the writes of the loop over the caveats of ms[i], from caveat k on
caveatWrites(ms, i, check, depth, k, caveatSig) ==
    IF k > Len(ms[i].caveats) THEN <<>>
    ELSE (IF /\ IsThirdParty(ms[i].caveats[k])
             /\ decrypt(caveatSig, ms[i].caveats[k].verificationId).ok
          THEN dischargeWrites(ms, ms[i].caveats[k],
                               decrypt(caveatSig, ms[i].caveats[k].verificationId).text,
                               check, depth, 1)
          ELSE <<>>)
         \o (IF caveatPasses(ms, ms[i].caveats[k], caveatSig, check, depth)
             THEN << <<caveatSigArray(ms, i),
                       keyedHash(caveatSig, ms[i].caveats[k].verificationId
                                                \o ms[i].caveats[k].caveatId)>> >>
                  \o caveatWrites(ms, i, check, depth, k + 1,
                                  keyedHash(caveatSig, ms[i].caveats[k].verificationId
                                                           \o ms[i].caveats[k].caveatId))
             ELSE <<>>)

verifyWrites(ms, i, rootKey, check, depth) ==
    IF depth > MaxDepth THEN <<>>
    ELSE caveatWrites(ms, i, check, depth, 1, keyedHash(rootKey, ms[i].id))

\* the macaroons once the writes ws are done
RECURSIVE written(_, _)
written(ms, ws) ==
    IF ws = <<>> THEN ms
    ELSE written(IF Head(ws)[1] = Local THEN ms ELSE [ms EXCEPT ![Head(ws)[1]].sig = Head(ws)[2]],
                 Tail(ws))

\* macs[1].Verify(rootKey, check, macs[2:]), with what it writes
DoVerifyWriting(rootKey, check) ==
    /\ macs # <<>>
    /\ macs' = written(macs, verifyWrites(macs, 1, rootKey, check, 0))
    /\ result' = [rootKey |-> rootKey, check |-> check,
                  err |-> Verify(macs[1], rootKey, check, Tail(macs)).err,
                  depth |-> Verify(macs[1], rootKey, check, Tail(macs)).depth,
                  before |-> macs,
                  writes |-> Len(verifyWrites(macs, 1, rootKey, check, 0))]
    /\ UNCHANGED <<rootKeys, minted, boundTo, heap, buf, store>>

NextWriting ==
    \/ \E p \in (IF macs = <<>> THEN {<<KeyA, IdR>>} ELSE ThirdParties):
          DoNew(p[1], p[2], LocA)
    \/ \E i \in DOMAIN macs, c \in Conditions:
          NoneBound /\ DoAddFirstPartyCaveat(i, c)
    \/ \E i \in DOMAIN macs, p \in ThirdParties, n \in Nonces:
          NoneBound /\ DoAddThirdPartyCaveat(i, p[1], p[2], LocA, n)
    \/ \E i \in DOMAIN macs \ {1}: boundTo[i] = <<>> /\ DoBind(i, 1)
    \/ \E c \in {AcceptAll, Accepting({Cond1})}: DoVerifyWriting(rootKeys[1], c)

SpecWriting == Init /\ [][NextWriting]_vars

\* C28: Verify is read-only.  After Verify has returned, with nil or with an
\* error, the primary and the discharges are the macaroons they were before
\* the call, in the same order: id, location, caveats and signature of each.
Thm_C28 == Verified => macs = result.before

\* Verify went into a discharge, wrote the sum of its caveat, which passed,
\* and returned an error
Wit_C28 ==
    /\ Verified
    /\ \E o \in FirstPartyAt : o[1] # 1 /\ o[1] \in Reached
    /\ \A o \in FirstPartyAt : o[1] # 1
    /\ result.writes >= 1
    /\ result.err = ErrSignature

(***************************************************************************)
(* Locations.  Macaroons and third-party caveats are made with either of     *)
(* two locations; Relocated(i) is macs[i] made once more by the same calls   *)
(* with the same keys, ids and nonces, and the other location everywhere.    *)
(***************************************************************************)
LocB == <<B(98)>>
Locations == {LocA, LocB}
OtherLocation(loc) == IF loc = LocA THEN LocB ELSE LocA

NextLocation ==
    \/ \E p \in (IF macs = <<>> THEN {<<KeyA, IdR>>} ELSE ThirdParties), loc \in Locations:
          DoNew(p[1], p[2], loc)
    \/ \E i \in DOMAIN macs : NoneBound /\ DoAddFirstPartyCaveat(i, Cond1)
    \/ \E i \in DOMAIN macs, p \in ThirdParties, n \in Nonces, loc \in Locations:
          NoneBound /\ DoAddThirdPartyCaveat(i, p[1], p[2], loc, n)
    \/ \E i \in DOMAIN macs \ {1}: boundTo[i] = <<>> /\ DoBind(i, 1)
    \/ DoVerify(rootKeys[1], AcceptAll)

SpecLocation == Init /\ [][NextLocation]_vars

\* the calls that gave m its caveats from the k-th on, made on m again
RECURSIVE readd(_, _, _)
readd(m, recs, k) ==
    IF k > Len(recs) THEN m
    ELSE readd(IF IsThirdParty(recs[k].caveat)
               THEN AddThirdPartyCaveat(m, recs[k].rootKey, recs[k].caveat.caveatId,
                                        OtherLocation(recs[k].caveat.location),
                                        TakeBytes(recs[k].caveat.verificationId, nonceLen))
               ELSE AddFirstPartyCaveat(m, recs[k].caveat.caveatId),
               recs, k + 1)
rebound(m, rootSig) == IF rootSig = <<>> THEN m ELSE Bind(m, rootSig)
Relocated(i) ==
    rebound(readd(New(rootKeys[i], macs[i].id, OtherLocation(macs[i].location)), minted[i], 1),
            boundTo[i])
RelocatedDischarges == [j \in 1..(Len(macs) - 1) |-> Relocated(j + 1)]

\* C29: locations are not authenticated.  The signature that New and the
\* Add operations give does not depend on the location of the macaroon or
\* of a caveat: the same calls with other locations give the same signature,
\* and Verify on macaroons that differ only in locations returns the same.
Thm_C29 ==
    /\ \A i \in DOMAIN macs :
          /\ Relocated(i).sig = macs[i].sig
          /\ Relocated(i).location # macs[i].location
    /\ Verified =>
          Verify(Relocated(1), result.rootKey, result.check, RelocatedDischarges).err = result.err

\* a primary with a third-party caveat and its bound discharge verifies
Wit_C29 ==
    /\ Verified /\ Succeeded
    /\ Len(macs) >= 2
    /\ boundTo[2] # <<>>
    /\ \E k \in DOMAIN macs[1].caveats :
          /\ IsThirdParty(macs[1].caveats[k])
          /\ Relocated(1).caveats[k].location # macs[1].caveats[k].location
          /\ macs[1].caveats[k].caveatId = macs[2].id

(***************************************************************************)
(* bakery/discharge.go: DischargeAll.  getDischarge is the caller's          *)
(* function; g says for which caveat ids it fails, and whether the           *)
(* discharge it mints for IdX has a third-party caveat IdY of its own.  The  *)
(* discharge of a caveat is New(root key of the third party, caveat id, ""), *)
(* as the getDischarge of TestDischargeAllManyDischarges makes it.           *)
(***************************************************************************)
ErrNothing == <<"nothing">>
ErrCannotGet(loc, err) == <<"cannot get discharge from", loc, err>>
Getters == [fail : {{}, {IdX}, {IdY}}, chain : BOOLEAN]
thirdPartyKey(caveatId) == (CHOOSE p \in ThirdParties : p[2] = caveatId)[1]

minted_discharge(g, cav) ==
    IF g.chain /\ cav.caveatId = IdX
    THEN AddThirdPartyCaveat(New(thirdPartyKey(cav.caveatId), cav.caveatId, <<>>),
                             thirdPartyKey(IdY), IdY, LocA, <<Rnd(8, nonceLen)>>)
    ELSE New(thirdPartyKey(cav.caveatId), cav.caveatId, <<>>)
getDischarge(g, firstPartyLocation, cav) ==
    IF cav.caveatId \in g.fail
    THEN [dm |-> New(<<>>, <<>>, <<>>), err |-> ErrNothing]
    ELSE [dm |-> minted_discharge(g, cav), err |-> Nil]

\* addCaveats: the caveats of m whose Location is not ""
RECURSIVE located(_, _)
located(cavs, k) ==
    IF k > Len(cavs) THEN <<>>
    ELSE (IF cavs[k].location = <<>> THEN <<>> ELSE <<cavs[k]>>) \o located(cavs, k + 1)
addCaveats(need, m) == need \o located(m.caveats, 1)

\* the loop "for len(need) > 0"; calls are the caveats getDischarge was
\* called with so far
RECURSIVE dischargeLoop(_, _, _, _, _)
dischargeGot(need, discharges, calls, g, firstPartyLocation, r) ==
    IF r.err # Nil
    THEN [discharges |-> <<>>, calls |-> calls,
          err |-> ErrCannotGet(calls[Len(calls)].location, r.err)]
    ELSE dischargeLoop(addCaveats(need, r.dm), Append(discharges, r.dm), calls,
                       g, firstPartyLocation)
dischargeLoop(need, discharges, calls, g, firstPartyLocation) ==
    IF need = <<>> THEN [discharges |-> discharges, calls |-> calls, err |-> Nil]
    ELSE dischargeGot(Tail(need), discharges, Append(calls, Head(need)), g, firstPartyLocation,
                      getDischarge(g, firstPartyLocation, Head(need)))
DischargeAll(m, g) == dischargeLoop(addCaveats(<<>>, m), <<>>, <<>>, g, m.location)

\* for _, m := range ms { m.Bind(m0.Signature()) }
boundAll(ms, rootSig) == [k \in DOMAIN ms |-> Bind(ms[k], rootSig)]

\* ms, err := DischargeAll(macs[1], getDischarge), and what Verify of macs[1]
\* returns for ms, each bound to the signature of macs[1]
DoDischargeAll(g) ==
    /\ macs # <<>>
    /\ result' = [op |-> "DischargeAll", g |-> g,
                  ms |-> DischargeAll(macs[1], g).discharges,
                  calls |-> DischargeAll(macs[1], g).calls,
                  err |-> DischargeAll(macs[1], g).err,
                  verifyErr |-> Verify(macs[1], rootKeys[1], AcceptAll,
                                       boundAll(DischargeAll(macs[1], g).discharges,
                                                macs[1].sig)).err]
    /\ UNCHANGED <<macs, rootKeys, minted, boundTo, heap, buf, store>>

NextDischarge ==
    \/ macs = <<>> /\ DoNew(KeyA, IdR, LocA)
    \/ \E c \in Conditions : macs # <<>> /\ DoAddFirstPartyCaveat(1, c)
    \/ \E p \in ThirdParties, n \in Nonces, loc \in {LocA, <<>>} :
          macs # <<>> /\ DoAddThirdPartyCaveat(1, p[1], p[2], loc, n)
    \/ \E g \in Getters : DoDischargeAll(g)

SpecDischarge == Init /\ [][NextDischarge]_vars

DischargedAll == "op" \in DOMAIN result /\ result.op = "DischargeAll"

\* C30: DischargeAll gathers one discharge for each third-party caveat: when
\* it returns without error, its result, each element bound to the signature
\* of m, makes m.Verify succeed under a check that accepts everything.
Cex_C30 == (DischargedAll /\ result.err = Nil) => result.verifyErr = Nil

====
